---- MODULE Spec2Model ----
(***************************************************************************)
(* A model of the NQ / NQ-open reconciliation scripts: the text            *)
(* normalisers, the record-store indexers, the record fetcher, the         *)
(* single-pass, batched and chunked exact-match drivers, and the keyword   *)
(* (Jaccard) matchers.                                                     *)
(*                                                                         *)
(* A string is a sequence of one-character strings, so that lower-casing,  *)
(* trimming, punctuation handling and word splitting are computed as the   *)
(* Python code computes them.                                              *)
(***************************************************************************)
EXTENDS Integers, Sequences, FiniteSets, TLC

VARIABLES
    variant,      \* which script's code path the run follows
    pc,           \* position of the run in that script
    nresults,     \* normaliser run: <<input, n(input), n(n(input)), ...>>
    store,        \* the record store: a sequence of lines
    queries,      \* the query dataset: a sequence of lines
    spos,         \* number of store lines the indexer has read
    qpos,         \* number of query lines the driver has read
    index,        \* questions_index / questions_dict: key -> entry
    merged,       \* lines written to the merged output file
    unmatched,    \* lines written to the unmatched output file
    processed,    \* the driver's processed counter
    matches,      \* the driver's matches counter
    batch_size,   \* --batch-size of merge_datasets_optimized_fixed
    current_batch,\* the batch process_nq_open_batch is filling
    threshold,    \* the similarity threshold of the keyword matchers
    similar,      \* what the last call of find_matches returned
    chunk_size,   \* --chunk-size of merge_datasets_chunked
    chunk_start,  \* main's chunk_start: the offset the current window began at
    next_pos,     \* process_chunk's next_pos
    cprocessed,   \* process_chunk's processed counter
    total_processed, \* main's total_processed
    total_matches, \* main's total_matches
    question1, \* test_similarity: q1, the first question
    question2, \* test_similarity: q2, the second question
    k1, \* test_similarity: the keywords of q1
    k2, \* test_similarity: the keywords of q2
    sim, \* test_similarity: the similarity of k1 and k2
    fetch_offset, \* get_full_data: byte_offset, the offset asked for
    fetched, \* get_full_data: what the call returned
    nq_open_files, \* main: nq_open_train and nq_open_dev, the query files of the run
    file_no, \* main: the number of query files main is done with
    outputs, \* the merged and unmatched files written so far, by query file
    visits \* the store lines process_chunk has parsed and counted, in the order of the reads (ghost)

normVars == <<nresults>>
dataVars == <<store, queries>>
indexVars == <<spos, index>>
driverVars == <<qpos, merged, unmatched, processed, matches>>
batchVars == <<batch_size, current_batch>>
fuzzyVars == <<threshold, similar>>
chunkVars == <<chunk_size, chunk_start, next_pos, cprocessed,
               total_processed, total_matches>>
simVars == <<question1, question2, k1, k2, sim>>
fetchVars == <<fetch_offset, fetched>>
fileVars == <<nq_open_files, file_no, outputs>>
visitVars == <<visits>>
vars == <<variant, pc, nresults, store, queries, spos, qpos, index,
          merged, unmatched, processed, matches, batch_size, current_batch,
          threshold, similar, chunk_size, chunk_start, next_pos, cprocessed,
          total_processed, total_matches,
          question1, question2, k1, k2, sim,
          fetch_offset, fetched,
          nq_open_files, file_no, outputs,
          visits>>

(***************************************************************************)
(* Bounds of the model.                                                    *)
(***************************************************************************)
MaxPieces == 4
MaxStore == 2
MaxQueries == 2
MaxBatch == 2
MaxChunkStore == 3
MaxChunk == 2

(***************************************************************************)
(* Characters and strings.                                                 *)
(***************************************************************************)
UpperCase == <<"A","B","C","D","E","F","G","H","I","J","K","L","M",
               "N","O","P","Q","R","S","T","U","V","W","X","Y","Z">>
LowerCase == <<"a","b","c","d","e","f","g","h","i","j","k","l","m",
               "n","o","p","q","r","s","t","u","v","w","x","y","z">>

\* str.lower() on one character
Lower(c) ==
    IF \E i \in DOMAIN UpperCase : UpperCase[i] = c
    THEN LowerCase[CHOOSE i \in DOMAIN UpperCase : UpperCase[i] = c]
    ELSE c

\* str.lower()
LowerStr(s) == [i \in 1..Len(s) |-> Lower(s[i])]

\* the characters str.strip() and str.split() treat as whitespace
Whitespace == {" ", "\t", "\n", "\r"}

RECURSIVE LStrip(_)
LStrip(s) ==
    IF s = <<>> THEN <<>>
    ELSE IF Head(s) \in Whitespace THEN LStrip(Tail(s)) ELSE s

RECURSIVE RStrip(_)
RStrip(s) ==
    IF s = <<>> THEN <<>>
    ELSE IF s[Len(s)] \in Whitespace THEN RStrip(SubSeq(s, 1, Len(s) - 1)) ELSE s

\* str.strip()
Strip(s) == RStrip(LStrip(s))

\* str.split(): the maximal runs of non-whitespace characters, in order
RECURSIVE SplitFrom(_, _, _)
SplitFrom(s, cur, acc) ==
    IF s = <<>> THEN (IF cur = <<>> THEN acc ELSE Append(acc, cur))
    ELSE IF Head(s) \in Whitespace
         THEN SplitFrom(Tail(s), <<>>, IF cur = <<>> THEN acc ELSE Append(acc, cur))
         ELSE SplitFrom(Tail(s), Append(cur, Head(s)), acc)

Split(s) == SplitFrom(s, <<>>, <<>>)

\* ' '.join(words)
RECURSIVE Join(_)
Join(words) ==
    IF words = <<>> THEN <<>>
    ELSE IF Len(words) = 1 THEN words[1]
    ELSE words[1] \o <<" ">> \o Join(Tail(words))

\* the characters matched by the class f'[{string.punctuation}]': every
\* character of string.punctuation but the backslash, which the class reads
\* as the escape of the ']' that follows it ("dquote" and "backtick" stand
\* for the double quote and the backtick)
PunctuationClass ==
    {"!", "dquote", "#", "$", "%", "&", "'", "(", ")", "*", "+", ",", "-", ".",
     "/", ":", ";", "<", "=", ">", "?", "@", "[", "]", "^", "_", "backtick", "{",
     "|", "}", "~"}

(***************************************************************************)
(* The normalisers.                                                        *)
(***************************************************************************)
\* normalize_question of the exact-match scripts: text.lower().strip()
normalize_question(text) == Strip(LowerStr(text))

\* normalize_text of the keyword scripts
normalize_text(text) ==
    LET t1 == Strip(LowerStr(text))
        t2 == [i \in 1..Len(t1) |-> IF t1[i] \in PunctuationClass THEN " " ELSE t1[i]]
    IN  Join(Split(t2))

\* the words process_datasets.normalize_question drops from the front
question_words ==
    { <<"w","h","a","t">>, <<"w","h","e","n">>, <<"w","h","e","r","e">>,
      <<"w","h","o">>, <<"w","h","y">>, <<"h","o","w">>,
      <<"w","h","i","c","h">>, <<"w","h","o","s","e">>, <<"w","h","o","m">> }

copulas == { <<"i","s">>, <<"w","a","s">>, <<"w","e","r","e">> }

IsPrefix(p, s) == Len(p) <= Len(s) /\ SubSeq(s, 1, Len(p)) = p

\* re.sub of a leading is/was/were and the whitespace after it by ''
StripCopula(question) ==
    IF \E c \in copulas :
          /\ IsPrefix(c, question)
          /\ Len(question) > Len(c)
          /\ question[Len(c) + 1] \in Whitespace
    THEN LET c == CHOOSE c \in copulas :
                     /\ IsPrefix(c, question)
                     /\ Len(question) > Len(c)
                     /\ question[Len(c) + 1] \in Whitespace
         IN  LStrip(SubSeq(question, Len(c) + 1, Len(question)))
    ELSE question

\* normalize_question of process_datasets
normalize_question_pd(question) ==
    LET q1 == Strip(LowerStr(question))
        q2 == SelectSeq(q1, LAMBDA c : c \notin {".", ",", "?", "!"})
        q3 == Join(Split(q2))
        words == Split(q3)
        q4 == IF words # <<>> /\ words[1] \in question_words
              THEN Join(Tail(words)) ELSE q3
    IN  StripCopula(q4)

(***************************************************************************)
(* The record store and the query dataset.  Every line is a record: Bad is *)
(* a line json.loads rejects; a store record carries its question text and *)
(* its payload fields; a query record carries question and answer.  The    *)
(* payload fields of the record on line i are the i-th values below, so    *)
(* that the line a merged field was copied from can be told from its value.*)
(***************************************************************************)
Bad == [bad |-> TRUE]

DocumentUrls == <<"http://x", "http://y", "http://z", "http://w", "http://v", "http://u">>
ExampleIds == <<"1", "2", "3", "4", "5", "6">>

StoreRecord(text, i) ==
    [ question_text |-> text,
      document_url |-> DocumentUrls[i],
      example_id |-> ExampleIds[i],
      document_text |-> <<"document_text", i>>,
      annotations |-> <<"annotations", i>>,
      long_answer_candidates |-> <<"long_answer_candidates", i>> ]

QueryRecord(text, ans) == [question |-> text, answer |-> ans]

FranceStored ==
    <<"w","h","a","t"," ","i","s"," ","t","h","e"," ","c","a","p","i","t","a","l",
      " ","o","f"," ","f","r","a","n","c","e">>
FranceAsked ==
    <<"W","h","a","t"," ","i","s"," ","t","h","e"," ","c","a","p","i","t","a","l",
      " ","o","f"," ","F","r","a","n","c","e","?">>

\* the question texts of the store lines of the exact-match runs
StoreTexts == { <<"x">>, <<"X", " ">>, <<"y">>, <<" ">> }

\* the query lines of the exact-match runs
QueryLines ==
    { Bad,
      QueryRecord(<<" ", "X">>, <<>>),
      QueryRecord(<<"x">>, <<"p">>),
      QueryRecord(<<"z", "?">>, <<"q">>) }

StoreKinds(texts) == {Bad} \cup { [text |-> t] : t \in texts }

MkStore(ks) ==
    [i \in 1..Len(ks) |-> IF ks[i] = Bad THEN Bad ELSE StoreRecord(ks[i].text, i)]

StoreFiles(texts) ==
    UNION { { MkStore(ks) : ks \in [1..n -> StoreKinds(texts)] } : n \in 0..MaxStore }

QueryFiles(lines) == UNION { [1..n -> lines] : n \in 0..MaxQueries }

\* the concrete scenario: one stored question, asked with other letter case
\* and a question mark
ScenarioStore == MkStore(<<[text |-> FranceStored]>>)
ScenarioQueries == <<QueryRecord(FranceAsked, <<"Paris">>)>>

\* the number of bytes of a store line, its newline included
LineBytes(line) == IF line = Bad THEN 1 ELSE Len(line.question_text) + 2

\* f.tell() before line i of the store is read (i - 1 lines were read)
RECURSIVE Offset(_, _)
Offset(st, i) == IF i <= 1 THEN 0 ELSE Offset(st, i - 1) + LineBytes(st[i - 1])

\* the empty dict {}
EmptyDict == [empty |-> TRUE]

\* an exception that leaves a function
Raised == [raised |-> TRUE]

\* get_full_data without its except clause: the exception of gzip.open, of
\* seek, of readline or of json.loads leaves the function
get_full_data_unguarded(st, byte_offset, io_ok) ==
    IF ~io_ok THEN Raised
    ELSE IF \E i \in 1..Len(st) : Offset(st, i) = byte_offset /\ st[i] # Bad
         THEN st[CHOOSE i \in 1..Len(st) : Offset(st, i) = byte_offset]
         ELSE Raised

\* get_full_data: reopen the store, seek, read one line and parse it; any
\* exception (the store cannot be reopened or read: io_ok is false; the line
\* at the offset does not parse; there is no line at the offset) gives {}
get_full_data(st, byte_offset, io_ok) ==
    IF ~io_ok THEN EmptyDict
    ELSE IF \E i \in 1..Len(st) : Offset(st, i) = byte_offset /\ st[i] # Bad
         THEN st[CHOOSE i \in 1..Len(st) : Offset(st, i) = byte_offset]
         ELSE EmptyDict

(***************************************************************************)
(* The index: a function from question keys to entries.                    *)
(***************************************************************************)
EmptyIndex == <<>>

\* a dictionary that keeps the entry a key already has (first write wins)
PutFirstWins(dict, key, entry) ==
    [k \in (DOMAIN dict) \cup {key} |-> IF k \in DOMAIN dict THEN dict[k] ELSE entry]

\* a dictionary whose existing entry is updated in place with the new
\* document_url only: the other fields stay those of the earlier record
PutUpdatesUrl(dict, key, entry) ==
    [k \in (DOMAIN dict) \cup {key} |->
        IF k # key THEN dict[k]
        ELSE IF key \in DOMAIN dict /\ "document_url" \in DOMAIN entry
             THEN [dict[key] EXCEPT !.document_url = entry.document_url]
             ELSE entry]

Put(dict, key, entry) ==
    [k \in (DOMAIN dict) \cup {key} |-> IF k = key THEN entry ELSE dict[k]]

\* the indexing loop body with f.tell() taken after readline instead of
\* before it: the entry locates the end of its line
IndexRecordTellAfter(idx, data, pos) ==
    LET question == Strip(data.question_text)
    IN  IF question # <<>>
        THEN Put(idx, normalize_question(question),
                 [ document_url |-> data.document_url,
                   example_id |-> data.example_id,
                   byte_offset |-> pos + Len(data.question_text) + 2 ])
        ELSE idx

\* the body of the indexing loops of create_minimal_index and process_chunk
\* for one parsed line read at offset pos
IndexRecord(idx, data, pos) ==
    LET question == Strip(data.question_text)
    IN  IF question # <<>>
        THEN Put(idx, normalize_question(question),
                 [ document_url |-> data.document_url,
                   example_id |-> data.example_id,
                   byte_offset |-> pos ])
        ELSE idx

(***************************************************************************)
(* Normaliser runs: an input string built from word pieces, and one        *)
(* normaliser applied to it again and again.                               *)
(***************************************************************************)
Pieces ==
    { <<" ">>, <<"?">>, <<"F","o","o">>, <<"w","h","a","t">>, <<"i","s">>, <<"x">> }

RECURSIVE Concat(_)
Concat(ps) == IF ps = <<>> THEN <<>> ELSE Head(ps) \o Concat(Tail(ps))

PieceSeqs == UNION { [1..n -> Pieces] : n \in 0..MaxPieces }

Inputs == { Concat(ps) : ps \in PieceSeqs }

MaxApply == 2

Idle == <<>>

InitNorm ==
    /\ variant = "norm"
    /\ pc \in {"question", "text", "aggressive"}
    /\ \E s \in Inputs : nresults = <<s>>
    /\ store = <<>> /\ queries = <<>>
    /\ spos = 0 /\ qpos = 0 /\ index = Idle
    /\ merged = <<>> /\ unmatched = <<>>
    /\ processed = 0 /\ matches = 0
    /\ batch_size = 0 /\ current_batch = <<>>
    /\ threshold = <<0, 1>> /\ similar = <<>>
    /\ chunk_size = 0 /\ chunk_start = 0 /\ next_pos = 0 /\ cprocessed = 0
    /\ total_processed = 0 /\ total_matches = 0
    /\ visits = <<>>
    /\ nq_open_files = <<>> /\ file_no = 0 /\ outputs = <<>>
    /\ fetch_offset = 0 /\ fetched = EmptyDict
    /\ question1 = <<>> /\ question2 = <<>> /\ k1 = {} /\ k2 = {} /\ sim = <<0, 1>>

Last(seq) == seq[Len(seq)]

ApplyNormalizeQuestion ==
    /\ variant = "norm" /\ pc = "question"
    /\ Len(nresults) <= MaxApply
    /\ nresults' = Append(nresults, normalize_question(Last(nresults)))
    /\ UNCHANGED simVars
    /\ UNCHANGED fetchVars
    /\ UNCHANGED fileVars
    /\ UNCHANGED visitVars
    /\ UNCHANGED <<variant, pc, dataVars, indexVars, driverVars, batchVars, fuzzyVars, chunkVars>>

ApplyNormalizeText ==
    /\ variant = "norm" /\ pc = "text"
    /\ Len(nresults) <= MaxApply
    /\ nresults' = Append(nresults, normalize_text(Last(nresults)))
    /\ UNCHANGED simVars
    /\ UNCHANGED fetchVars
    /\ UNCHANGED fileVars
    /\ UNCHANGED visitVars
    /\ UNCHANGED <<variant, pc, dataVars, indexVars, driverVars, batchVars, fuzzyVars, chunkVars>>

ApplyNormalizeQuestionPd ==
    /\ variant = "norm" /\ pc = "aggressive"
    /\ Len(nresults) <= MaxApply
    /\ nresults' = Append(nresults, normalize_question_pd(Last(nresults)))
    /\ UNCHANGED simVars
    /\ UNCHANGED fetchVars
    /\ UNCHANGED fileVars
    /\ UNCHANGED visitVars
    /\ UNCHANGED <<variant, pc, dataVars, indexVars, driverVars, batchVars, fuzzyVars, chunkVars>>

NextNorm ==
    \/ ApplyNormalizeQuestion
    \/ ApplyNormalizeText
    \/ ApplyNormalizeQuestionPd

SpecNorm == InitNorm /\ [][NextNorm]_vars

(***************************************************************************)
(* merge_datasets_optimized_memory: create_minimal_index reads the whole   *)
(* store, then process_nq_open reads the query file once.  An output line  *)
(* carries, besides the fields of the JSON object, the number qline of the *)
(* query line it was written for (bookkeeping of the model only).          *)
(***************************************************************************)
InitMemory ==
    /\ variant = "memory"
    /\ pc = "index"
    /\ nresults = <<>>
    /\ \/ /\ store \in StoreFiles(StoreTexts)
          /\ queries \in QueryFiles(QueryLines)
       \/ /\ store = ScenarioStore
          /\ queries = ScenarioQueries
    /\ spos = 0 /\ qpos = 0 /\ index = EmptyIndex
    /\ merged = <<>> /\ unmatched = <<>>
    /\ processed = 0 /\ matches = 0
    /\ batch_size = 0 /\ current_batch = <<>>
    /\ threshold = <<0, 1>> /\ similar = <<>>
    /\ chunk_size = 0 /\ chunk_start = 0 /\ next_pos = 0 /\ cprocessed = 0
    /\ total_processed = 0 /\ total_matches = 0
    /\ visits = <<>>
    /\ nq_open_files = <<>> /\ file_no = 0 /\ outputs = <<>>
    /\ fetch_offset = 0 /\ fetched = EmptyDict
    /\ question1 = <<>> /\ question2 = <<>> /\ k1 = {} /\ k2 = {} /\ sim = <<0, 1>>

\* one iteration of the while loop of create_minimal_index on a line
CreateMinimalIndexStep ==
    /\ variant = "memory" /\ pc = "index"
    /\ spos < Len(store)
    /\ LET line == store[spos + 1]
           pos == Offset(store, spos + 1)
       IN  index' = IF line = Bad THEN index ELSE IndexRecord(index, line, pos)
    /\ spos' = spos + 1
    /\ UNCHANGED simVars
    /\ UNCHANGED fetchVars
    /\ UNCHANGED fileVars
    /\ UNCHANGED visitVars
    /\ UNCHANGED <<variant, pc, normVars, dataVars, driverVars, batchVars, fuzzyVars, chunkVars>>

\* readline returns '': create_minimal_index returns, and main gives up on
\* an empty index
CreateMinimalIndexEnd ==
    /\ variant = "memory" /\ pc = "index"
    /\ spos = Len(store)
    /\ pc' = IF index = EmptyIndex THEN "failed" ELSE "drive"
    /\ UNCHANGED simVars
    /\ UNCHANGED fetchVars
    /\ UNCHANGED fileVars
    /\ UNCHANGED visitVars
    /\ UNCHANGED <<variant, normVars, dataVars, indexVars, driverVars, batchVars, fuzzyVars, chunkVars>>

\* the merged record of the offset-based drivers: URL and example id come
\* from the index entry, the other store fields from the fetched record
OffsetMerged(question, answer, simplified_data, index_data, n) ==
    [ question |-> question,
      answer |-> answer,
      document_text |-> simplified_data.document_text,
      document_url |-> index_data.document_url,
      annotations |-> simplified_data.annotations,
      long_answer_candidates |-> simplified_data.long_answer_candidates,
      example_id |-> index_data.example_id,
      qline |-> n ]

\* one iteration of the for loop of process_nq_open
ProcessNqOpenStep ==
    /\ variant = "memory" /\ pc = "drive"
    /\ qpos < Len(queries)
    /\ qpos' = qpos + 1
    /\ \E io_ok \in BOOLEAN :
        LET data == queries[qpos + 1]
            question == Strip(data.question)
            answer == data.answer
            normalized_question == normalize_question(question)
            index_data == index[normalized_question]
            simplified_data == get_full_data(store, index_data.byte_offset, io_ok)
        IN  IF data = Bad
            THEN UNCHANGED <<merged, unmatched, processed, matches>>
            ELSE /\ processed' = processed + 1
                 /\ IF normalized_question \in DOMAIN index
                    THEN IF simplified_data # EmptyDict
                         THEN /\ merged' = Append(merged,
                                     OffsetMerged(question, answer, simplified_data,
                                                  index_data, qpos + 1))
                              /\ matches' = matches + 1
                              /\ UNCHANGED unmatched
                         ELSE UNCHANGED <<merged, unmatched, matches>>
                    ELSE /\ unmatched' = Append(unmatched,
                                [question |-> question, answer |-> answer,
                                 qline |-> qpos + 1])
                         /\ UNCHANGED <<merged, matches>>
    /\ UNCHANGED simVars
    /\ UNCHANGED fetchVars
    /\ UNCHANGED fileVars
    /\ UNCHANGED visitVars
    /\ UNCHANGED <<variant, pc, normVars, dataVars, indexVars, batchVars, fuzzyVars, chunkVars>>

\* the query file is exhausted: process_nq_open returns
ProcessNqOpenEnd ==
    /\ variant = "memory" /\ pc = "drive"
    /\ qpos = Len(queries)
    /\ pc' = "done"
    /\ UNCHANGED simVars
    /\ UNCHANGED fetchVars
    /\ UNCHANGED fileVars
    /\ UNCHANGED visitVars
    /\ UNCHANGED <<variant, normVars, dataVars, indexVars, driverVars, batchVars, fuzzyVars, chunkVars>>

(***************************************************************************)
(* merge_datasets_optimized_fixed: load_simplified_nq_minimal reads the    *)
(* whole store, then process_nq_open_batch reads the query file and hands  *)
(* every full batch, and the last partial one, to process_batch.           *)
(***************************************************************************)
InitFixed ==
    /\ variant = "fixed"
    /\ pc = "index"
    /\ nresults = <<>>
    /\ \/ /\ store \in StoreFiles(StoreTexts)
          /\ queries \in QueryFiles(QueryLines)
       \/ /\ store = ScenarioStore
          /\ queries = ScenarioQueries
    /\ spos = 0 /\ qpos = 0 /\ index = EmptyIndex
    /\ merged = <<>> /\ unmatched = <<>>
    /\ processed = 0 /\ matches = 0
    /\ batch_size \in 1..MaxBatch /\ current_batch = <<>>
    /\ threshold = <<0, 1>> /\ similar = <<>>
    /\ chunk_size = 0 /\ chunk_start = 0 /\ next_pos = 0 /\ cprocessed = 0
    /\ total_processed = 0 /\ total_matches = 0
    /\ visits = <<>>
    /\ nq_open_files = <<>> /\ file_no = 0 /\ outputs = <<>>
    /\ fetch_offset = 0 /\ fetched = EmptyDict
    /\ question1 = <<>> /\ question2 = <<>> /\ k1 = {} /\ k2 = {} /\ sim = <<0, 1>>

\* the body of the loop of load_simplified_nq_minimal for one parsed line
LoadRecord(dict, data) ==
    LET question == Strip(data.question_text)
    IN  IF question # <<>>
        THEN Put(dict, normalize_question(question),
                 [ document_url |-> data.document_url,
                   example_id |-> data.example_id,
                   original_question |-> question ])
        ELSE dict

\* one iteration of the for loop of load_simplified_nq_minimal
LoadSimplifiedNqMinimalStep ==
    /\ variant = "fixed" /\ pc = "index"
    /\ spos < Len(store)
    /\ LET line == store[spos + 1]
       IN  index' = IF line = Bad THEN index ELSE LoadRecord(index, line)
    /\ spos' = spos + 1
    /\ UNCHANGED simVars
    /\ UNCHANGED fetchVars
    /\ UNCHANGED fileVars
    /\ UNCHANGED visitVars
    /\ UNCHANGED <<variant, pc, normVars, dataVars, driverVars, batchVars, fuzzyVars, chunkVars>>

\* the store is exhausted: main goes on to the query file, whatever the
\* dictionary holds
LoadSimplifiedNqMinimalEnd ==
    /\ variant = "fixed" /\ pc = "index"
    /\ spos = Len(store)
    /\ pc' = "drive"
    /\ UNCHANGED simVars
    /\ UNCHANGED fetchVars
    /\ UNCHANGED fileVars
    /\ UNCHANGED visitVars
    /\ UNCHANGED <<variant, normVars, dataVars, indexVars, driverVars, batchVars, fuzzyVars, chunkVars>>

\* get_full_data_from_simplified_nq: scan the store from its first line and
\* return the first record whose question has the target's key; lines that
\* do not parse are passed over; {} when the store cannot be read (io_ok is
\* false) or no record has the key
RECURSIVE ScanFor(_, _, _)
ScanFor(st, i, normalized_target) ==
    IF i > Len(st) THEN EmptyDict
    ELSE IF /\ st[i] # Bad
            /\ Strip(st[i].question_text) # <<>>
            /\ normalize_question(Strip(st[i].question_text)) = normalized_target
         THEN st[i]
         ELSE ScanFor(st, i + 1, normalized_target)

get_full_data_from_simplified_nq(st, target_question, io_ok) ==
    IF ~io_ok THEN EmptyDict
    ELSE ScanFor(st, 1, normalize_question(target_question))

\* the merged record of process_batch: every store field comes from the
\* record the scan returned
ScanMerged(question, answer, simplified_data, n) ==
    [ question |-> question,
      answer |-> answer,
      document_text |-> simplified_data.document_text,
      document_url |-> simplified_data.document_url,
      annotations |-> simplified_data.annotations,
      long_answer_candidates |-> simplified_data.long_answer_candidates,
      example_id |-> simplified_data.example_id,
      qline |-> n ]

\* process_batch on one element of the batch (item.data is the parsed query,
\* item.qline its line); out holds the two files and the running counters
ProcessBatchItem(out, item, dict, st, io_ok) ==
    LET question == Strip(item.data.question)
        answer == item.data.answer
        normalized_question == normalize_question(question)
        simplified_data == get_full_data_from_simplified_nq(st, question, io_ok)
    IN  IF normalized_question \in DOMAIN dict
        THEN IF simplified_data # EmptyDict
             THEN [out EXCEPT
                     !.merged = Append(@, ScanMerged(question, answer,
                                                     simplified_data, item.qline)),
                     !.matches = @ + 1,
                     !.processed = @ + 1]
             ELSE [out EXCEPT
                     !.unmatched = Append(@, [question |-> question, answer |-> answer,
                                              error |-> "Failed to get full data",
                                              qline |-> item.qline]),
                     !.processed = @ + 1]
        ELSE [out EXCEPT
                !.unmatched = Append(@, [question |-> question, answer |-> answer,
                                         error |-> "No match found",
                                         qline |-> item.qline]),
                !.processed = @ + 1]

\* process_batch: the elements of the batch in order; io_oks[i] tells whether
\* the store could be read for element i
RECURSIVE ProcessBatchFrom(_, _, _, _, _, _)
ProcessBatchFrom(out, batch, i, dict, st, io_oks) ==
    IF i > Len(batch) THEN out
    ELSE ProcessBatchFrom(ProcessBatchItem(out, batch[i], dict, st, io_oks[i]),
                          batch, i + 1, dict, st, io_oks)

process_batch(out, batch, dict, st, io_oks) ==
    ProcessBatchFrom(out, batch, 1, dict, st, io_oks)

DriverOut == [merged |-> merged, unmatched |-> unmatched,
              processed |-> processed, matches |-> matches]

\* one iteration of the for loop of process_nq_open_batch
ProcessNqOpenBatchStep ==
    /\ variant = "fixed" /\ pc = "drive"
    /\ qpos < Len(queries)
    /\ qpos' = qpos + 1
    /\ LET data == queries[qpos + 1]
           batch == Append(current_batch, [data |-> data, qline |-> qpos + 1])
       IN  IF data = Bad
           THEN UNCHANGED <<merged, unmatched, processed, matches, current_batch>>
           ELSE IF Len(batch) >= batch_size
                THEN \E io_oks \in [1..Len(batch) -> BOOLEAN] :
                       LET out == process_batch(DriverOut, batch, index, store, io_oks)
                       IN  /\ merged' = out.merged
                           /\ unmatched' = out.unmatched
                           /\ processed' = out.processed
                           /\ matches' = out.matches
                           /\ current_batch' = <<>>
                ELSE /\ current_batch' = batch
                     /\ UNCHANGED <<merged, unmatched, processed, matches>>
    /\ UNCHANGED simVars
    /\ UNCHANGED fetchVars
    /\ UNCHANGED fileVars
    /\ UNCHANGED visitVars
    /\ UNCHANGED <<variant, pc, normVars, dataVars, indexVars, batch_size, fuzzyVars, chunkVars>>

\* process_nq_open_batch without the 'if current_batch:' block after the
\* loop: the questions left in the last batch are dropped
ProcessNqOpenBatchEndNoFlush ==
    /\ variant = "fixed" /\ pc = "drive"
    /\ qpos = Len(queries)
    /\ pc' = "done"
    /\ current_batch' = <<>>
    /\ UNCHANGED <<merged, unmatched, processed, matches>>
    /\ UNCHANGED simVars
    /\ UNCHANGED fetchVars
    /\ UNCHANGED fileVars
    /\ UNCHANGED visitVars
    /\ UNCHANGED <<variant, normVars, dataVars, indexVars, qpos, batch_size, fuzzyVars, chunkVars>>

\* the query file is exhausted: the remaining batch is processed and
\* process_nq_open_batch returns
ProcessNqOpenBatchEnd ==
    /\ variant = "fixed" /\ pc = "drive"
    /\ qpos = Len(queries)
    /\ pc' = "done"
    /\ IF current_batch # <<>>
       THEN \E io_oks \in [1..Len(current_batch) -> BOOLEAN] :
              LET out == process_batch(DriverOut, current_batch, index, store, io_oks)
              IN  /\ merged' = out.merged
                  /\ unmatched' = out.unmatched
                  /\ processed' = out.processed
                  /\ matches' = out.matches
                  /\ current_batch' = <<>>
       ELSE UNCHANGED <<merged, unmatched, processed, matches, current_batch>>
    /\ UNCHANGED simVars
    /\ UNCHANGED fetchVars
    /\ UNCHANGED fileVars
    /\ UNCHANGED visitVars
    /\ UNCHANGED <<variant, normVars, dataVars, indexVars, qpos, batch_size, fuzzyVars, chunkVars>>

(***************************************************************************)
(* The keyword matchers.  A similarity is a float in the code; here it is  *)
(* the fraction <<n, d>> in lowest terms, and a comparison of two floats   *)
(* is the comparison of the two fractions.                                 *)
(***************************************************************************)
RECURSIVE GCD(_, _)
GCD(a, b) == IF b = 0 THEN a ELSE GCD(b, a % b)

Frac(n, d) == LET g == GCD(n, d) IN <<n \div g, d \div g>>

Geq(a, b) == a[1] * b[2] >= b[1] * a[2]
Greater(a, b) == a[1] * b[2] > b[1] * a[2]

\* the values of the threshold parameter: the defaults (test_matching: 0.3;
\* merge_datasets and merge_datasets_simplified: 0.9) and 0.5, a value that
\* a similarity can equal
Thresholds == { <<3, 10>>, <<1, 2>>, <<9, 10>> }

stop_words ==
    { <<"a">>, <<"a","n">>, <<"t","h","e">>, <<"i","s">>, <<"w","a","s">>,
      <<"w","e","r","e">>, <<"w","i","l","l">>, <<"b","e">>, <<"i","n">>,
      <<"o","n">>, <<"a","t">>, <<"t","o">>, <<"f","o","r">>, <<"o","f">> }

get_keywords(text) ==
    LET words == Split(normalize_text(text))
    IN  { words[i] : i \in DOMAIN words } \ stop_words

\* the common keywords counted against the first set alone
OverlapOfFirst(keywords1, keywords2) ==
    IF keywords1 = {} \/ keywords2 = {}
    THEN Frac(0, 1)
    ELSE Frac(Cardinality(keywords1 \cap keywords2), Cardinality(keywords1))

\* equal sets, the empty ones too, taken as fully similar
EqualSetsAlike(keywords1, keywords2) ==
    IF keywords1 = keywords2
    THEN Frac(1, 1)
    ELSE IF keywords1 = {} \/ keywords2 = {}
    THEN Frac(0, 1)
    ELSE Frac(Cardinality(keywords1 \cap keywords2),
              Cardinality(keywords1 \cup keywords2))

\* the common keywords counted against the sum of the two sizes
OverlapOfSum(keywords1, keywords2) ==
    IF keywords1 = {} \/ keywords2 = {}
    THEN Frac(0, 1)
    ELSE Frac(Cardinality(keywords1 \cap keywords2),
              Cardinality(keywords1) + Cardinality(keywords2))

calculate_similarity(keywords1, keywords2) ==
    IF keywords1 = {} \/ keywords2 = {}
    THEN Frac(0, 1)
    ELSE Frac(Cardinality(keywords1 \cap keywords2),
              Cardinality(keywords1 \cup keywords2))

\* the question texts of the store lines of the keyword runs, and a record
\* whose document_url is ''
FuzzyStoreTexts == { <<"x", " ", "y">>, <<"T", "h", "e", " ", "x", "?">> }

NoUrl == [text |-> <<"x", " ", "y">>, nourl |-> TRUE]

MkFuzzyStore(ks) ==
    [i \in 1..Len(ks) |->
        IF ks[i] = Bad THEN Bad
        ELSE IF ks[i] = NoUrl THEN [StoreRecord(ks[i].text, i) EXCEPT !.document_url = ""]
        ELSE StoreRecord(ks[i].text, i)]

FuzzyStoreFiles ==
    UNION { { MkFuzzyStore(ks) : ks \in [1..n -> StoreKinds(FuzzyStoreTexts) \cup {NoUrl}] } :
              n \in 0..MaxStore }

FuzzyQueryLines ==
    { Bad,
      QueryRecord(<<" ", "X">>, <<"p">>),
      QueryRecord(<<"x", " ", "y">>, <<"q">>),
      QueryRecord(<<"x">>, <<>>) }

InitFuzzy ==
    /\ variant \in {"keyword", "simplified"}
    /\ pc = "index"
    /\ nresults = <<>>
    /\ \/ /\ store \in FuzzyStoreFiles
          /\ queries \in QueryFiles(FuzzyQueryLines)
       \/ /\ store = ScenarioStore
          /\ queries = ScenarioQueries
    /\ spos = 0 /\ qpos = 0
    /\ index = EmptyIndex
    /\ merged = <<>> /\ unmatched = <<>>
    /\ processed = 0 /\ matches = 0
    /\ batch_size = 0 /\ current_batch = <<>>
    /\ threshold \in Thresholds /\ similar = <<>>
    /\ chunk_size = 0 /\ chunk_start = 0 /\ next_pos = 0 /\ cprocessed = 0
    /\ total_processed = 0 /\ total_matches = 0
    /\ visits = <<>>
    /\ nq_open_files = <<>> /\ file_no = 0 /\ outputs = <<>>
    /\ fetch_offset = 0 /\ fetched = EmptyDict
    /\ question1 = <<>> /\ question2 = <<>> /\ k1 = {} /\ k2 = {} /\ sim = <<0, 1>>

(***************************************************************************)
(* merge_datasets: process_nq_file files every question under each of its  *)
(* keywords; find_matches collects the candidates that share a keyword     *)
(* with the target; process_efficient_qa takes the best of them.           *)
(***************************************************************************)
\* the body of the loop of process_nq_file for one parsed line
FileUnderKeywords(qbk, data) ==
    LET question == Strip(data.question_text)
        url == data.document_url
        keywords == get_keywords(question)
        entry == [q |-> question, url |-> url, keywords |-> keywords]
    IN  IF question # <<>> /\ url # ""
        THEN [k \in (DOMAIN qbk) \cup keywords |->
                IF k \in keywords
                THEN Append(IF k \in DOMAIN qbk THEN qbk[k] ELSE <<>>, entry)
                ELSE qbk[k]]
        ELSE qbk

\* one iteration of the for loop of process_nq_file
ProcessNqFileStep ==
    /\ variant = "keyword" /\ pc = "index"
    /\ spos < Len(store)
    /\ LET line == store[spos + 1]
       IN  index' = IF line = Bad THEN index ELSE FileUnderKeywords(index, line)
    /\ spos' = spos + 1
    /\ UNCHANGED simVars
    /\ UNCHANGED fetchVars
    /\ UNCHANGED fileVars
    /\ UNCHANGED visitVars
    /\ UNCHANGED <<variant, pc, normVars, dataVars, driverVars, batchVars, fuzzyVars, chunkVars>>

ProcessNqFileEnd ==
    /\ variant = "keyword" /\ pc = "index"
    /\ spos = Len(store)
    /\ pc' = "drive"
    /\ UNCHANGED simVars
    /\ UNCHANGED fetchVars
    /\ UNCHANGED fileVars
    /\ UNCHANGED visitVars
    /\ UNCHANGED <<variant, normVars, dataVars, indexVars, driverVars, batchVars, fuzzyVars, chunkVars>>

\* a test that takes every candidate with a keyword in common, whatever the
\* threshold
AcceptsAnyOverlap(similarity, thr) == Greater(similarity, <<0, 1>>)

\* the test of find_matches on a candidate's similarity
Accepts(similarity, thr) == Geq(similarity, thr)

\* candidates[q] = (url, similarity) when q is new or scored lower before;
\* the dict keeps the place of a key it already holds
Candidate(candidates, q, url, similarity) ==
    IF \E i \in DOMAIN candidates : candidates[i].q = q
    THEN LET i == CHOOSE i \in DOMAIN candidates : candidates[i].q = q
         IN  IF Greater(similarity, candidates[i].sim)
             THEN [candidates EXCEPT ![i] = [q |-> q, url |-> url, sim |-> similarity]]
             ELSE candidates
    ELSE Append(candidates, [q |-> q, url |-> url, sim |-> similarity])

\* the inner loop of find_matches over the list filed under one keyword
RECURSIVE ScanList(_, _, _, _, _)
ScanList(candidates, list, i, target_keywords, thr) ==
    IF i > Len(list) THEN candidates
    ELSE LET similarity == calculate_similarity(target_keywords, list[i].keywords)
         IN  ScanList(IF Accepts(similarity, thr)
                      THEN Candidate(candidates, list[i].q, list[i].url, similarity)
                      ELSE candidates,
                      list, i + 1, target_keywords, thr)

\* the outer loop of find_matches over the target's keywords, in the order
\* the set yields them
RECURSIVE ScanKeywords(_, _, _, _, _, _)
ScanKeywords(candidates, order, j, qbk, target_keywords, thr) ==
    IF j > Len(order) THEN candidates
    ELSE ScanKeywords(IF order[j] \in DOMAIN qbk
                      THEN ScanList(candidates, qbk[order[j]], 1, target_keywords, thr)
                      ELSE candidates,
                      order, j + 1, qbk, target_keywords, thr)

\* sorted(results, key=similarity, reverse=True): stable
RECURSIVE InsertBySim(_, _)
InsertBySim(sorted, c) ==
    IF sorted = <<>> THEN <<c>>
    ELSE IF Geq(Head(sorted).sim, c.sim)
         THEN <<Head(sorted)>> \o InsertBySim(Tail(sorted), c)
         ELSE <<c>> \o sorted

RECURSIVE SortBySim(_)
SortBySim(results) ==
    IF results = <<>> THEN <<>>
    ELSE InsertBySim(SortBySim(SubSeq(results, 1, Len(results) - 1)),
                     results[Len(results)])

\* find_matches; order lists the target's keywords as iteration yields them
find_matches(target_question, qbk, thr, order) ==
    SortBySim(ScanKeywords(<<>>, order, 1, qbk, get_keywords(target_question), thr))

\* the orders in which a set may be iterated
Orders(S) ==
    { f \in [1..Cardinality(S) -> S] : \A x \in S : \E i \in DOMAIN f : f[i] = x }

\* one iteration of the for loop of process_efficient_qa of merge_datasets
ProcessEfficientQaStep ==
    /\ variant = "keyword" /\ pc = "drive"
    /\ qpos < Len(queries)
    /\ qpos' = qpos + 1
    /\ LET data == queries[qpos + 1]
           question == Strip(data.question)
       IN  IF data = Bad
           THEN UNCHANGED <<merged, unmatched, processed, matches, similar>>
           ELSE IF data.answer = <<>>
           THEN \* data.get('answer', [''])[0] raises IndexError, which the
                \* except clause logs
                UNCHANGED <<merged, unmatched, processed, matches, similar>>
           ELSE \E order \in Orders(get_keywords(question)) :
                  LET answer == data.answer[1]
                      found == find_matches(question, index, threshold, order)
                  IN  /\ similar' = found
                      /\ processed' = processed + 1
                      /\ IF found # <<>>
                         THEN /\ merged' = Append(merged,
                                    [ question |-> data.question,
                                      answer |-> data.answer,
                                      document_url |-> found[1].url,
                                      nq_similarity |-> found[1].sim,
                                      nq_question |-> found[1].q,
                                      qline |-> qpos + 1 ])
                              /\ matches' = matches + 1
                              /\ UNCHANGED unmatched
                         ELSE /\ unmatched' = Append(unmatched,
                                    [question |-> question, answer |-> answer,
                                     qline |-> qpos + 1])
                              /\ merged' = Append(merged,
                                    [question |-> data.question, answer |-> data.answer,
                                     qline |-> qpos + 1])
                              /\ UNCHANGED matches
    /\ UNCHANGED simVars
    /\ UNCHANGED fetchVars
    /\ UNCHANGED fileVars
    /\ UNCHANGED visitVars
    /\ UNCHANGED <<variant, pc, normVars, dataVars, indexVars, batchVars, threshold, chunkVars>>

ProcessEfficientQaEnd ==
    /\ variant = "keyword" /\ pc = "drive"
    /\ qpos = Len(queries)
    /\ pc' = "done"
    /\ UNCHANGED simVars
    /\ UNCHANGED fetchVars
    /\ UNCHANGED fileVars
    /\ UNCHANGED visitVars
    /\ UNCHANGED <<variant, normVars, dataVars, indexVars, driverVars, batchVars, fuzzyVars, chunkVars>>

(***************************************************************************)
(* merge_datasets_simplified: process_simplified_nq keeps one (url,        *)
(* question) per normalised question, in insertion order;                  *)
(* process_efficient_qa tries the exact key, then every entry in turn.     *)
(***************************************************************************)
\* questions_dict[key] = (url, question): a dict keeps the place of a key it
\* already holds and appends a new one
DictPut(dict, key, url, question) ==
    IF \E i \in DOMAIN dict : dict[i].key = key
    THEN [dict EXCEPT ![CHOOSE i \in DOMAIN dict : dict[i].key = key] =
             [key |-> key, url |-> url, question |-> question]]
    ELSE Append(dict, [key |-> key, url |-> url, question |-> question])

\* one iteration of the for loop of process_simplified_nq
ProcessSimplifiedNqStep ==
    /\ variant = "simplified" /\ pc = "index"
    /\ spos < Len(store)
    /\ LET line == store[spos + 1]
           question == Strip(line.question_text)
       IN  index' = IF line # Bad /\ question # <<>> /\ line.document_url # ""
                    THEN DictPut(index, normalize_text(question),
                                 line.document_url, question)
                    ELSE index
    /\ spos' = spos + 1
    /\ UNCHANGED simVars
    /\ UNCHANGED fetchVars
    /\ UNCHANGED fileVars
    /\ UNCHANGED visitVars
    /\ UNCHANGED <<variant, pc, normVars, dataVars, driverVars, batchVars, fuzzyVars, chunkVars>>

ProcessSimplifiedNqEnd ==
    /\ variant = "simplified" /\ pc = "index"
    /\ spos = Len(store)
    /\ pc' = "drive"
    /\ UNCHANGED simVars
    /\ UNCHANGED fetchVars
    /\ UNCHANGED fileVars
    /\ UNCHANGED visitVars
    /\ UNCHANGED <<variant, normVars, dataVars, indexVars, driverVars, batchVars, fuzzyVars, chunkVars>>

\* the search loop of process_efficient_qa over nq_questions.items()
RECURSIVE BestMatch(_, _, _, _, _)
BestMatch(best, dict, i, q1_keywords, thr) ==
    IF i > Len(dict) THEN best
    ELSE LET similarity == calculate_similarity(q1_keywords, get_keywords(dict[i].key))
         IN  BestMatch(IF Geq(similarity, thr) /\ Greater(similarity, best.similarity)
                       THEN [similarity |-> similarity, url |-> dict[i].url,
                             nq_question |-> dict[i].question]
                       ELSE best,
                       dict, i + 1, q1_keywords, thr)

\* best_similarity, best_url and best_nq_question after the exact test and
\* the search
Best(normalized_question, dict, thr) ==
    IF \E i \in DOMAIN dict : dict[i].key = normalized_question
    THEN LET e == dict[CHOOSE i \in DOMAIN dict : dict[i].key = normalized_question]
         IN  [similarity |-> Frac(1, 1), url |-> e.url, nq_question |-> e.question]
    ELSE BestMatch([similarity |-> Frac(0, 1), url |-> "", nq_question |-> <<>>],
                   dict, 1, get_keywords(normalized_question), thr)

\* one iteration of the for loop of process_efficient_qa of
\* merge_datasets_simplified
ProcessEfficientQaSimplifiedStep ==
    /\ variant = "simplified" /\ pc = "drive"
    /\ qpos < Len(queries)
    /\ qpos' = qpos + 1
    /\ LET data == queries[qpos + 1]
           question == Strip(data.question)
           answer == data.answer[1]
           best == Best(normalize_text(question), index, threshold)
       IN  IF data = Bad
           THEN UNCHANGED <<merged, unmatched, processed, matches>>
           ELSE IF data.answer = <<>>
           THEN \* IndexError, logged by the except clause
                UNCHANGED <<merged, unmatched, processed, matches>>
           ELSE /\ processed' = processed + 1
                /\ IF Geq(best.similarity, threshold)
                   THEN /\ merged' = Append(merged,
                              [ question |-> data.question,
                                answer |-> data.answer,
                                document_url |-> best.url,
                                nq_similarity |-> best.similarity,
                                nq_question |-> best.nq_question,
                                qline |-> qpos + 1 ])
                        /\ matches' = matches + 1
                        /\ UNCHANGED unmatched
                   ELSE /\ unmatched' = Append(unmatched,
                              [question |-> question, answer |-> answer,
                               qline |-> qpos + 1])
                        /\ merged' = Append(merged,
                              [question |-> data.question, answer |-> data.answer,
                               qline |-> qpos + 1])
                        /\ UNCHANGED matches
    /\ UNCHANGED simVars
    /\ UNCHANGED fetchVars
    /\ UNCHANGED fileVars
    /\ UNCHANGED visitVars
    /\ UNCHANGED <<variant, pc, normVars, dataVars, indexVars, batchVars, fuzzyVars, chunkVars>>

ProcessEfficientQaSimplifiedEnd ==
    /\ variant = "simplified" /\ pc = "drive"
    /\ qpos = Len(queries)
    /\ pc' = "done"
    /\ UNCHANGED simVars
    /\ UNCHANGED fetchVars
    /\ UNCHANGED fileVars
    /\ UNCHANGED visitVars
    /\ UNCHANGED <<variant, normVars, dataVars, indexVars, driverVars, batchVars, fuzzyVars, chunkVars>>

NextFuzzy ==
    \/ ProcessNqFileStep
    \/ ProcessNqFileEnd
    \/ ProcessEfficientQaStep
    \/ ProcessEfficientQaEnd
    \/ ProcessSimplifiedNqStep
    \/ ProcessSimplifiedNqEnd
    \/ ProcessEfficientQaSimplifiedStep
    \/ ProcessEfficientQaSimplifiedEnd

SpecFuzzy == InitFuzzy /\ [][NextFuzzy]_vars

(***************************************************************************)
(* merge_datasets_chunked: main indexes the store window by window with    *)
(* process_chunk and, for a window it keeps, runs process_nq_open_chunk    *)
(* over the query file from its first line, appending to the output files. *)
(***************************************************************************)
ChunkStoreTexts == { <<"x">>, <<"X", " ">>, <<"y">>, <<" ">> }

ChunkStoreFiles ==
    UNION { { MkStore(ks) : ks \in [1..n -> StoreKinds(ChunkStoreTexts)] } :
              n \in 0..MaxChunkStore }

ChunkQueryLines ==
    { Bad,
      QueryRecord(<<" ", "X">>, <<"p">>),
      QueryRecord(<<"y">>, <<"q">>) }

InitChunked ==
    /\ variant = "chunked"
    /\ pc = "chunk"
    /\ nresults = <<>>
    /\ store \in ChunkStoreFiles
    /\ queries \in QueryFiles(ChunkQueryLines)
    /\ spos = 0 /\ qpos = 0 /\ index = EmptyIndex
    /\ merged = <<>> /\ unmatched = <<>>
    /\ processed = 0 /\ matches = 0
    /\ batch_size = 0 /\ current_batch = <<>>
    /\ threshold = <<0, 1>> /\ similar = <<>>
    /\ chunk_size \in 1..MaxChunk
    /\ chunk_start = 0 /\ next_pos = 0 /\ cprocessed = 0
    /\ total_processed = 0 /\ total_matches = 0
    /\ visits = <<>>
    /\ nq_open_files = <<>> /\ file_no = 0 /\ outputs = <<>>
    /\ fetch_offset = 0 /\ fetched = EmptyDict
    /\ question1 = <<>> /\ question2 = <<>> /\ k1 = {} /\ k2 = {} /\ sim = <<0, 1>>

\* f.seek(offset): the number of lines that lie before the offset
LinesBefore(st, offset) ==
    CHOOSE n \in 0..Len(st) : Offset(st, n + 1) = offset

\* process_chunk without 'next_pos = f.tell()': the next window starts where
\* this one started
ProcessChunkStepKeepsPos ==
    /\ variant = "chunked" /\ pc = "chunk"
    /\ cprocessed < chunk_size
    /\ spos < Len(store)
    /\ LET line == store[spos + 1]
           pos == Offset(store, spos + 1)
       IN  IF line = Bad
           THEN UNCHANGED <<index, cprocessed, next_pos, visits>>
           ELSE /\ index' = IndexRecord(index, line, pos)
                /\ cprocessed' = cprocessed + 1
                /\ next_pos' = next_pos
                /\ visits' = Append(visits, spos + 1)
    /\ spos' = spos + 1
    /\ UNCHANGED simVars
    /\ UNCHANGED fetchVars
    /\ UNCHANGED fileVars
    /\ UNCHANGED <<variant, pc, normVars, dataVars, driverVars, batchVars, fuzzyVars,
                   chunk_size, chunk_start, total_processed, total_matches>>

\* process_chunk with its counting statements outside the try block: a line
\* that does not parse counts and moves next_pos like a record
ProcessChunkStepCountsBad ==
    /\ variant = "chunked" /\ pc = "chunk"
    /\ cprocessed < chunk_size
    /\ spos < Len(store)
    /\ LET line == store[spos + 1]
           pos == Offset(store, spos + 1)
       IN  /\ IF line = Bad
              THEN UNCHANGED <<index, visits>>
              ELSE /\ index' = IndexRecord(index, line, pos)
                   /\ visits' = Append(visits, spos + 1)
           /\ cprocessed' = cprocessed + 1
           /\ next_pos' = Offset(store, spos + 2)
    /\ spos' = spos + 1
    /\ UNCHANGED simVars
    /\ UNCHANGED fetchVars
    /\ UNCHANGED fileVars
    /\ UNCHANGED <<variant, pc, normVars, dataVars, driverVars, batchVars, fuzzyVars,
                   chunk_size, chunk_start, total_processed, total_matches>>

\* one iteration of the while loop of process_chunk on a line
ProcessChunkStep ==
    /\ variant = "chunked" /\ pc = "chunk"
    /\ cprocessed < chunk_size
    /\ spos < Len(store)
    /\ LET line == store[spos + 1]
           pos == Offset(store, spos + 1)
       IN  IF line = Bad
           THEN UNCHANGED <<index, cprocessed, next_pos, visits>>
           ELSE /\ index' = IndexRecord(index, line, pos)
                /\ cprocessed' = cprocessed + 1
                /\ next_pos' = Offset(store, spos + 2)
                /\ visits' = Append(visits, spos + 1)
    /\ spos' = spos + 1
    /\ UNCHANGED simVars
    /\ UNCHANGED fetchVars
    /\ UNCHANGED fileVars
    /\ UNCHANGED <<variant, pc, normVars, dataVars, driverVars, batchVars, fuzzyVars,
                   chunk_size, chunk_start, total_processed, total_matches>>

\* readline returns '': process_chunk returns (index, -1) and main leaves its
\* loop
ProcessChunkEof ==
    /\ variant = "chunked" /\ pc = "chunk"
    /\ cprocessed < chunk_size
    /\ spos = Len(store)
    /\ next_pos' = -1
    /\ pc' = "done"
    /\ UNCHANGED simVars
    /\ UNCHANGED fetchVars
    /\ UNCHANGED fileVars
    /\ UNCHANGED visitVars
    /\ UNCHANGED <<variant, normVars, dataVars, indexVars, driverVars, batchVars,
                   fuzzyVars, chunk_size, chunk_start, cprocessed,
                   total_processed, total_matches>>

\* chunk_size records were read: process_chunk returns (index, next_pos);
\* main leaves its loop when the index is empty and goes on to the queries
\* otherwise
ProcessChunkFull ==
    /\ variant = "chunked" /\ pc = "chunk"
    /\ cprocessed >= chunk_size
    /\ pc' = IF index = EmptyIndex THEN "done" ELSE "drive"
    /\ UNCHANGED simVars
    /\ UNCHANGED fetchVars
    /\ UNCHANGED fileVars
    /\ UNCHANGED visitVars
    /\ UNCHANGED <<variant, normVars, dataVars, indexVars, driverVars, batchVars,
                   fuzzyVars, chunkVars>>

\* the body of the for loop of process_nq_open_chunk for line n
ChunkDriverItem(out, data, n, idx, st, io_ok) ==
    LET question == Strip(data.question)
        answer == data.answer
        normalized_question == normalize_question(question)
        index_data == idx[normalized_question]
        simplified_data == get_full_data(st, index_data.byte_offset, io_ok)
    IN  IF data = Bad
        THEN [out EXCEPT !.next_line = @ + 1]
        ELSE IF normalized_question \in DOMAIN idx
        THEN IF simplified_data # EmptyDict
             THEN [out EXCEPT
                     !.merged = Append(@, OffsetMerged(question, answer, simplified_data,
                                                       index_data, n)),
                     !.matches = @ + 1,
                     !.processed = @ + 1,
                     !.next_line = @ + 1]
             ELSE [out EXCEPT !.processed = @ + 1, !.next_line = @ + 1]
        ELSE [out EXCEPT
                !.unmatched = Append(@, [question |-> question, answer |-> answer,
                                         qline |-> n]),
                !.processed = @ + 1,
                !.next_line = @ + 1]

\* the for loop of process_nq_open_chunk from line n on: it ends with the
\* file or once chunk_size questions were processed
RECURSIVE ChunkDriverFrom(_, _, _, _, _, _, _)
ChunkDriverFrom(out, qs, n, size, idx, st, io_oks) ==
    IF n > Len(qs) \/ out.processed >= size THEN out
    ELSE ChunkDriverFrom(ChunkDriverItem(out, qs[n], n, idx, st, io_oks[n]),
                         qs, n + 1, size, idx, st, io_oks)

\* process_nq_open_chunk: the files are opened for appending and the first
\* start_line lines of the query file are passed over
process_nq_open_chunk(fout, funmatched, qs, idx, st, start_line, size, io_oks) ==
    ChunkDriverFrom([merged |-> fout, unmatched |-> funmatched, processed |-> 0,
                     matches |-> 0, next_line |-> start_line],
                    qs, start_line + 1, size, idx, st, io_oks)

\* main without questions_index.clear() and with an index that process_chunk
\* does not start afresh
ProcessNqOpenChunkKeepsIndex ==
    /\ variant = "chunked" /\ pc = "drive"
    /\ \E io_oks \in [1..Len(queries) -> BOOLEAN] :
         LET out == process_nq_open_chunk(merged, unmatched, queries, index, store,
                                          0, chunk_size, io_oks)
         IN  /\ merged' = out.merged
             /\ unmatched' = out.unmatched
             /\ processed' = out.processed
             /\ matches' = out.matches
             /\ qpos' = out.next_line
             /\ total_processed' = total_processed + out.processed
             /\ total_matches' = total_matches + out.matches
    /\ UNCHANGED index
    /\ chunk_start' = next_pos
    /\ cprocessed' = 0
    /\ spos' = LinesBefore(store, next_pos)
    /\ pc' = "chunk"
    /\ UNCHANGED simVars
    /\ UNCHANGED fetchVars
    /\ UNCHANGED fileVars
    /\ UNCHANGED visitVars
    /\ UNCHANGED <<variant, normVars, dataVars, batchVars, fuzzyVars, chunk_size, next_pos>>

\* main after process_chunk returned a window it keeps: the driver runs from
\* line 0, the totals grow, the index is cleared and process_chunk starts
\* on the next window
ProcessNqOpenChunk ==
    /\ variant = "chunked" /\ pc = "drive"
    /\ \E io_oks \in [1..Len(queries) -> BOOLEAN] :
         LET out == process_nq_open_chunk(merged, unmatched, queries, index, store,
                                          0, chunk_size, io_oks)
         IN  /\ merged' = out.merged
             /\ unmatched' = out.unmatched
             /\ processed' = out.processed
             /\ matches' = out.matches
             /\ qpos' = out.next_line
             /\ total_processed' = total_processed + out.processed
             /\ total_matches' = total_matches + out.matches
    /\ index' = EmptyIndex
    /\ chunk_start' = next_pos
    /\ cprocessed' = 0
    /\ spos' = LinesBefore(store, next_pos)
    /\ pc' = "chunk"
    /\ UNCHANGED simVars
    /\ UNCHANGED fetchVars
    /\ UNCHANGED fileVars
    /\ UNCHANGED visitVars
    /\ UNCHANGED <<variant, normVars, dataVars, batchVars, fuzzyVars, chunk_size, next_pos>>

NextChunked ==
    \/ ProcessChunkStep
    \/ ProcessChunkEof
    \/ ProcessChunkFull
    \/ ProcessNqOpenChunk

SpecChunked == InitChunked /\ [][NextChunked]_vars

(***************************************************************************)
(* process_datasets: process_nq_file collects a row per store record with  *)
(* a non-empty question and hands the rows to SQLite batch by batch with   *)
(* INSERT OR REPLACE; question is the primary key of the table.  The table *)
(* is the function index from a key to the other two columns.              *)
(***************************************************************************)
DbStoreTexts == { <<"x">>, <<"I", "s", " ", "x", "?">>, <<"w", "h", "o">>, <<" ">> }

DbStoreFiles ==
    UNION { { MkStore(ks) : ks \in [1..n -> StoreKinds(DbStoreTexts)] } :
              n \in 0..MaxChunkStore }

InitDatabase ==
    /\ variant = "database"
    /\ pc = "index"
    /\ nresults = <<>>
    /\ store \in DbStoreFiles
    /\ queries = <<>>
    /\ spos = 0 /\ qpos = 0 /\ index = EmptyIndex
    /\ merged = <<>> /\ unmatched = <<>>
    /\ processed = 0 /\ matches = 0
    /\ batch_size \in 1..MaxBatch /\ current_batch = <<>>
    /\ threshold = <<0, 1>> /\ similar = <<>>
    /\ chunk_size = 0 /\ chunk_start = 0 /\ next_pos = 0 /\ cprocessed = 0
    /\ total_processed = 0 /\ total_matches = 0
    /\ visits = <<>>
    /\ nq_open_files = <<>> /\ file_no = 0 /\ outputs = <<>>
    /\ fetch_offset = 0 /\ fetched = EmptyDict
    /\ question1 = <<>> /\ question2 = <<>> /\ k1 = {} /\ k2 = {} /\ sim = <<0, 1>>

\* the tuple process_nq_file appends to its batch for a parsed line
DbRow(data) ==
    LET question == Strip(data.question_text)
    IN  [ question |-> normalize_question_pd(question),
          original_question |-> question,
          data_json |-> [ document_url |-> data.document_url,
                          document_title |-> "",
                          annotations |-> data.annotations,
                          long_answer_candidates |-> data.long_answer_candidates ] ]

\* cursor.executemany('INSERT OR REPLACE ...', batch): the rows in order
RECURSIVE ExecuteMany(_, _)
ExecuteMany(table, batch) ==
    IF batch = <<>> THEN table
    ELSE ExecuteMany(Put(table, Head(batch).question,
                         [ original_question |-> Head(batch).original_question,
                           data_json |-> Head(batch).data_json ]),
                     Tail(batch))

\* one iteration of the for loop of process_nq_file
ProcessNqFileSqliteStep ==
    /\ variant = "database" /\ pc = "index"
    /\ spos < Len(store)
    /\ LET line == store[spos + 1]
           batch == Append(current_batch, DbRow(line))
       IN  IF line = Bad \/ Strip(line.question_text) = <<>>
           THEN UNCHANGED <<index, current_batch, processed>>
           ELSE /\ processed' = processed + 1
                /\ IF Len(batch) >= batch_size
                   THEN /\ index' = ExecuteMany(index, batch)
                        /\ current_batch' = <<>>
                   ELSE /\ current_batch' = batch
                        /\ UNCHANGED index
    /\ spos' = spos + 1
    /\ UNCHANGED simVars
    /\ UNCHANGED fetchVars
    /\ UNCHANGED fileVars
    /\ UNCHANGED visitVars
    /\ UNCHANGED <<variant, pc, normVars, dataVars, qpos, merged, unmatched, matches,
                   batch_size, fuzzyVars, chunkVars>>

\* the file is exhausted: the remaining rows are written
ProcessNqFileSqliteEnd ==
    /\ variant = "database" /\ pc = "index"
    /\ spos = Len(store)
    /\ index' = ExecuteMany(index, current_batch)
    /\ current_batch' = <<>>
    /\ pc' = "done"
    /\ UNCHANGED simVars
    /\ UNCHANGED fetchVars
    /\ UNCHANGED fileVars
    /\ UNCHANGED visitVars
    /\ UNCHANGED <<variant, normVars, dataVars, spos, driverVars, batch_size,
                   fuzzyVars, chunkVars>>

Init == InitMemory \/ InitFixed

Next ==
    \/ CreateMinimalIndexStep
    \/ CreateMinimalIndexEnd
    \/ ProcessNqOpenStep
    \/ ProcessNqOpenEnd
    \/ LoadSimplifiedNqMinimalStep
    \/ LoadSimplifiedNqMinimalEnd
    \/ ProcessNqOpenBatchStep
    \/ ProcessNqOpenBatchEnd

Spec == Init /\ [][Next]_vars

\* the single-pass scripts together
InitAll == Init \/ InitFuzzy

NextAll == Next \/ NextFuzzy

SpecAll == InitAll /\ [][NextAll]_vars

\* the indexers on their own: the store is read, no query is asked
InitIndexers ==
    \/ InitMemory /\ queries = <<>>
    \/ InitChunked /\ queries = <<>>
    \/ InitDatabase

NextIndexers ==
    \/ CreateMinimalIndexStep
    \/ CreateMinimalIndexEnd
    \/ ProcessChunkStep
    \/ ProcessChunkEof
    \/ ProcessChunkFull
    \/ ProcessNqOpenChunk
    \/ ProcessNqFileSqliteStep
    \/ ProcessNqFileSqliteEnd

SpecIndexers == InitIndexers /\ [][NextIndexers]_vars

(***************************************************************************)
(* The record fetcher on its own: get_full_data is called with an offset   *)
(* that need not be the start of a line (negative, inside a line, past the *)
(* end of the store), on a store that can or cannot be reopened; and the   *)
(* offset-based run, whose driver calls it for every query in the index.   *)
(***************************************************************************)
\* the size of the store in bytes
StoreBytes(st) == Offset(st, Len(st) + 1)

InitFetch ==
    /\ variant = "fetch"
    /\ pc = "call"
    /\ nresults = <<>>
    /\ store \in StoreFiles(StoreTexts)
    /\ queries = <<>>
    /\ spos = 0 /\ qpos = 0 /\ index = EmptyIndex
    /\ merged = <<>> /\ unmatched = <<>>
    /\ processed = 0 /\ matches = 0
    /\ batch_size = 0 /\ current_batch = <<>>
    /\ threshold = <<0, 1>> /\ similar = <<>>
    /\ chunk_size = 0 /\ chunk_start = 0 /\ next_pos = 0 /\ cprocessed = 0
    /\ total_processed = 0 /\ total_matches = 0
    /\ visits = <<>>
    /\ nq_open_files = <<>> /\ file_no = 0 /\ outputs = <<>>
    /\ question1 = <<>> /\ question2 = <<>> /\ k1 = {} /\ k2 = {} /\ sim = <<0, 1>>
    /\ fetch_offset \in -1..(StoreBytes(store) + 1) /\ fetched = EmptyDict

\* one call of get_full_data
GetFullData ==
    /\ variant = "fetch" /\ pc = "call"
    /\ \E io_ok \in BOOLEAN :
         fetched' = get_full_data(store, fetch_offset, io_ok)
    /\ pc' = "returned"
    /\ UNCHANGED simVars
    /\ UNCHANGED fileVars
    /\ UNCHANGED visitVars
    /\ UNCHANGED <<variant, normVars, dataVars, indexVars, driverVars, batchVars,
                   fuzzyVars, chunkVars, fetch_offset>>

NextFetch ==
    \/ GetFullData
    \/ CreateMinimalIndexStep
    \/ CreateMinimalIndexEnd
    \/ ProcessNqOpenStep
    \/ ProcessNqOpenEnd

InitFetchRun == InitFetch \/ InitMemory

SpecFetch == InitFetchRun /\ [][NextFetch]_vars

(***************************************************************************)
(* The configuration values: --chunk-size of merge_datasets_chunked,       *)
(* --batch-size of merge_datasets_optimized_fixed (argparse type=int takes *)
(* zero and negative numbers) and similarity_threshold of                  *)
(* process_efficient_qa of merge_datasets_simplified (any float).  The     *)
(* output files of an earlier run may exist when main of                   *)
(* merge_datasets_chunked starts.                                          *)
(***************************************************************************)
\* a line an earlier run wrote to an output file
Existing == [existing |-> TRUE]

ExistingOutputs == { <<>>, <<Existing>> }

ConfigThresholds == Thresholds \cup { <<0, 1>>, <<-1, 10>>, <<11, 10>> }

InitConfig ==
    /\ variant \in {"chunked", "fixed", "simplified"}
    /\ pc = IF variant = "chunked" THEN "start" ELSE "index"
    /\ nresults = <<>>
    /\ \/ /\ variant = "chunked"
          /\ store \in ChunkStoreFiles
          /\ queries \in QueryFiles(ChunkQueryLines)
          /\ merged \in ExistingOutputs /\ unmatched \in ExistingOutputs
          /\ chunk_size \in -1..MaxChunk
          /\ batch_size = 0
          /\ threshold = <<0, 1>>
       \/ /\ variant = "fixed"
          /\ store \in StoreFiles(StoreTexts)
          /\ queries \in QueryFiles(QueryLines)
          /\ merged = <<>> /\ unmatched = <<>>
          /\ chunk_size = 0
          /\ batch_size \in -1..MaxBatch
          /\ threshold = <<0, 1>>
       \/ /\ variant = "simplified"
          /\ store \in FuzzyStoreFiles
          /\ queries \in QueryFiles(FuzzyQueryLines)
          /\ merged = <<>> /\ unmatched = <<>>
          /\ chunk_size = 0
          /\ batch_size = 0
          /\ threshold \in ConfigThresholds
    /\ spos = 0 /\ qpos = 0 /\ index = EmptyIndex
    /\ processed = 0 /\ matches = 0
    /\ current_batch = <<>>
    /\ similar = <<>>
    /\ chunk_start = 0 /\ next_pos = 0 /\ cprocessed = 0
    /\ total_processed = 0 /\ total_matches = 0
    /\ visits = <<>>
    /\ nq_open_files = <<>> /\ file_no = 0 /\ outputs = <<>>
    /\ fetch_offset = 0 /\ fetched = EmptyDict
    /\ question1 = <<>> /\ question2 = <<>> /\ k1 = {} /\ k2 = {} /\ sim = <<0, 1>>

\* main of merge_datasets_chunked before its loop: the output files that
\* exist are removed
MainRemoveOutputs ==
    /\ variant = "chunked" /\ pc = "start"
    /\ merged' = <<>> /\ unmatched' = <<>>
    /\ pc' = "chunk"
    /\ UNCHANGED simVars
    /\ UNCHANGED fetchVars
    /\ UNCHANGED fileVars
    /\ UNCHANGED visitVars
    /\ UNCHANGED <<variant, normVars, dataVars, indexVars, qpos, processed, matches,
                   batchVars, fuzzyVars, chunkVars>>

NextConfig ==
    \/ MainRemoveOutputs
    \/ NextChunked
    \/ LoadSimplifiedNqMinimalStep
    \/ LoadSimplifiedNqMinimalEnd
    \/ ProcessNqOpenBatchStep
    \/ ProcessNqOpenBatchEnd
    \/ ProcessSimplifiedNqStep
    \/ ProcessSimplifiedNqEnd
    \/ ProcessEfficientQaSimplifiedStep
    \/ ProcessEfficientQaSimplifiedEnd

SpecConfig == InitConfig /\ [][NextConfig]_vars

(***************************************************************************)
(* An unreadable store.  gzip.open or a read of the store raises while     *)
(* lines are still unread: the file is missing, is not a gzip file, is     *)
(* truncated, or is followed by bytes that are no gzip member.             *)
(***************************************************************************)
\* merge_datasets_optimized_fixed: the exception leaves the for loop of
\* load_simplified_nq_minimal, the outer except clause logs it and the
\* dictionary filled so far is returned; main goes on to the query file
LoadSimplifiedNqMinimalFails ==
    /\ variant = "fixed" /\ pc = "index"
    /\ spos < Len(store)
    /\ pc' = "drive"
    /\ UNCHANGED simVars
    /\ UNCHANGED fetchVars
    /\ UNCHANGED fileVars
    /\ UNCHANGED visitVars
    /\ UNCHANGED <<variant, normVars, dataVars, indexVars, driverVars, batchVars, fuzzyVars, chunkVars>>

\* merge_datasets_optimized_memory: when gzip.open raises, the outer except
\* clause of create_minimal_index returns the empty index; when readline
\* raises, the inner except clause continues the while loop, and the loop
\* either never ends (every further readline raises) or ends at the next
\* readline, which returns '', with the index filled so far; main gives up
\* on an empty index and goes on to the query file otherwise
CreateMinimalIndexFails ==
    /\ variant = "memory" /\ pc = "index"
    /\ spos < Len(store)
    /\ \/ pc' = "hung"
       \/ pc' = IF index = EmptyIndex THEN "failed" ELSE "drive"
    /\ UNCHANGED simVars
    /\ UNCHANGED fetchVars
    /\ UNCHANGED fileVars
    /\ UNCHANGED visitVars
    /\ UNCHANGED <<variant, normVars, dataVars, indexVars, driverVars, batchVars, fuzzyVars, chunkVars>>

NextStoreFailure ==
    \/ Next
    \/ LoadSimplifiedNqMinimalFails
    \/ CreateMinimalIndexFails

SpecStoreFailure == Init /\ [][NextStoreFailure]_vars

(***************************************************************************)
(* Properties.                                                             *)
(***************************************************************************)
\* the number of lines the two output files hold for query line n
WrittenFor(n) ==
    Cardinality({ i \in DOMAIN merged : merged[i].qline = n })
    + Cardinality({ i \in DOMAIN unmatched : unmatched[i].qline = n })

\* C1: after a single-pass run of process_nq_open (optimized_memory) or of
\* process_efficient_qa (merge_datasets), every query line that parses has
\* exactly one record in the merged and unmatched outputs taken together,
\* and an empty query file leaves both outputs empty and the counters at 0.
C1_ExactlyOneRecordPerQuery ==
    (pc = "done" /\ variant \in {"memory", "keyword"}) =>
        /\ \A n \in DOMAIN queries : queries[n] # Bad => WrittenFor(n) = 1
        /\ queries = <<>> =>
              merged = <<>> /\ unmatched = <<>> /\ processed = 0 /\ matches = 0

\* C2: after a complete run of main of merge_datasets_chunked, every query
\* line that parses has exactly one record in the merged and unmatched
\* outputs taken together; in particular no query is merged in one window
\* and written as unmatched in another.
C2_EachQueryOnceAcrossWindows ==
    (variant = "chunked" /\ pc = "done") =>
        \A n \in DOMAIN queries : queries[n] # Bad => WrittenFor(n) = 1

\* a store line that the exact-match indexers enter into the index, and the
\* key they enter it under
Indexable(r) == r # Bad /\ Strip(r.question_text) # <<>>

KeyOf(r) == normalize_question(Strip(r.question_text))

\* create_minimal_index over the first n lines of a store
RECURSIVE create_minimal_index(_, _)
create_minimal_index(st, n) ==
    IF n = 0 THEN EmptyIndex
    ELSE LET idx == create_minimal_index(st, n - 1)
         IN  IF st[n] = Bad THEN idx ELSE IndexRecord(idx, st[n], Offset(st, n))

\* the query lines that one pass of process_nq_open over an index of the
\* whole store merges
SinglePassMerged ==
    { n \in DOMAIN queries :
        /\ queries[n] # Bad
        /\ normalize_question(Strip(queries[n].question))
              \in DOMAIN create_minimal_index(store, Len(store)) }

\* the query lines that have a record in the merged output
MergedLines == { merged[i].qline : i \in DOMAIN merged }

\* C3: for every store, query file and chunk size, the set of queries that a
\* complete chunked run merged equals the set that one exact-match pass over
\* a single index of the whole store merges, also when the store has fewer
\* records than a window or a number of records that is no multiple of it.
C3_ChunkedEqualsSingleIndex ==
    (variant = "chunked" /\ pc = "done") => MergedLines = SinglePassMerged

\* C4: when a query's key is in the index and the fetch of the full record
\* returns nothing, the query is written to the unmatched output with a
\* reason other than that of a plain no-match, and is not counted as a match
\* (process_nq_open of optimized_memory, process_batch of optimized_fixed).
C4_FetchFailureIsReported ==
    (variant \in {"memory", "fixed"} /\ pc = "done") =>
        /\ \A n \in DOMAIN queries :
              ( /\ queries[n] # Bad
                /\ normalize_question(Strip(queries[n].question)) \in DOMAIN index )
              => \/ n \in MergedLines
                 \/ \E i \in DOMAIN unmatched :
                       /\ unmatched[i].qline = n
                       /\ "error" \in DOMAIN unmatched[i]
                       /\ unmatched[i].error # "No match found"
        /\ matches = Len(merged)

Max(S) == CHOOSE x \in S : \A y \in S : y <= x

\* the last line of the store whose question has key k
LastWithKey(k) ==
    Max({ i \in DOMAIN store : Indexable(store[i]) /\ KeyOf(store[i]) = k })

\* C5: on the exact-match path every store-side field of a merged record
\* (document_text, document_url, annotations, long_answer_candidates,
\* example_id) is that of the record the index entry of the key denotes, the
\* last store record with that key, and the record has no nq_similarity.
C5_FieldsFromIndexedRecord ==
    variant \in {"memory", "fixed"} =>
        \A i \in DOMAIN merged :
            LET m == merged[i]
                r == store[LastWithKey(normalize_question(m.question))]
            IN  /\ m.document_text = r.document_text
                /\ m.document_url = r.document_url
                /\ m.annotations = r.annotations
                /\ m.long_answer_candidates = r.long_answer_candidates
                /\ m.example_id = r.example_id
                /\ "nq_similarity" \notin DOMAIN m

\* C6: the query "What is the capital of France?" with answer ["Paris"]
\* against a store holding "what is the capital of france" with document_url
\* "http://x" and example_id "1" is merged by the exact path, and the merged
\* record has the query's question and answer and the store's document_url
\* and example_id (process_nq_open of optimized_memory, process_efficient_qa
\* of merge_datasets_simplified).
C6_FranceScenarioMerged ==
    ( /\ variant \in {"memory", "simplified"}
      /\ pc = "done"
      /\ store = ScenarioStore
      /\ queries = ScenarioQueries )
    => \E i \in DOMAIN merged :
          LET m == merged[i]
          IN  /\ m.question = FranceAsked
              /\ m.answer = <<"Paris">>
              /\ "document_url" \in DOMAIN m
              /\ m.document_url = "http://x"
              /\ "example_id" \in DOMAIN m
              /\ m.example_id = "1"
              /\ "nq_similarity" \in DOMAIN m => m.nq_similarity = <<1, 1>>

\* C7: each normaliser is idempotent, n(n(s)) = n(s): normalize_question of
\* the exact-match scripts, normalize_text, and normalize_question of
\* process_datasets.
C7_NormalisersIdempotent ==
    (variant = "norm" /\ Len(nresults) >= 3) => nresults[3] = nresults[2]

FooPadded == <<" ", "F", "o", "o", "?", " ">>

FooPlain == <<"f", "o", "o">>

\* C8: the key of " Foo? " equals the key of "foo", for normalize_question
\* (the key function of create_minimal_index and process_chunk) and for
\* normalize_text.
C8_KeyOfFooVariants ==
    ( /\ variant = "norm"
      /\ pc \in {"question", "text"}
      /\ Len(nresults) >= 2
      /\ nresults[1] = FooPadded )
    => nresults[2] = IF pc = "question" THEN normalize_question(FooPlain)
                                        ELSE normalize_text(FooPlain)

\* the store lines the indexer has consumed for the index it is building:
\* all lines read so far, for process_chunk those of the current window
Window ==
    IF variant = "chunked"
    THEN (LinesBefore(store, chunk_start) + 1)..spos
    ELSE 1..spos

\* the key an indexer files a record under, and the entry it files
IndexKey(r) ==
    IF variant = "database"
    THEN normalize_question_pd(Strip(r.question_text))
    ELSE KeyOf(r)

EntryOf(i) ==
    IF variant = "database"
    THEN [ original_question |-> Strip(store[i].question_text),
           data_json |-> [ document_url |-> store[i].document_url,
                           document_title |-> "",
                           annotations |-> store[i].annotations,
                           long_answer_candidates |-> store[i].long_answer_candidates ] ]
    ELSE [ document_url |-> store[i].document_url,
           example_id |-> store[i].example_id,
           byte_offset |-> Offset(store, i) ]

\* the table of process_datasets once the rows collected so far are written
Table == IF variant = "database" THEN ExecuteMany(index, current_batch) ELSE index

\* C9: indexing is last-write-wins: once the indexer has consumed a sequence
\* of records, the index has exactly one entry for each distinct key of the
\* consumed records with a non-empty question, and the entry of a key is the
\* one built from the last consumed record with that key
\* (create_minimal_index, process_chunk, process_nq_file of process_datasets).
C9_LastWriteWins ==
    variant \in {"memory", "chunked", "database"} =>
        /\ DOMAIN Table =
              { IndexKey(store[i]) : i \in { j \in Window : Indexable(store[j]) } }
        /\ \A k \in DOMAIN Table :
              Table[k] = EntryOf(Max({ i \in Window : /\ Indexable(store[i])
                                                         /\ IndexKey(store[i]) = k }))
        /\ (variant = "database" /\ pc = "done") => current_batch = <<>>

\* create_minimal_index has read two records with the same key and the index
\* holds the entry of the later one
C9_Overwritten ==
    /\ variant = "memory"
    /\ \E i \in 1..spos : \E j \in (i + 1)..spos :
          /\ Indexable(store[i]) /\ Indexable(store[j])
          /\ KeyOf(store[i]) = KeyOf(store[j])
          /\ KeyOf(store[j]) \in DOMAIN index
          /\ index[KeyOf(store[j])].byte_offset = Offset(store, j)
          /\ store[i].document_url # store[j].document_url

\* a store line that the keyword indexers enter into their index
FuzzyIndexed(r) ==
    r # Bad /\ Strip(r.question_text) # <<>> /\ r.document_url # ""

\* the Jaccard score of query line n against store line i
Score(n, i) ==
    calculate_similarity(get_keywords(Strip(queries[n].question)),
                         get_keywords(Strip(store[i].question_text)))

\* query line n has the normalised text of an indexed store question
ExactHit(n) ==
    \E i \in DOMAIN store :
        /\ FuzzyIndexed(store[i])
        /\ normalize_text(Strip(store[i].question_text))
              = normalize_text(Strip(queries[n].question))

\* query line n was written to the merged output with a match
MatchedLine(n) ==
    \E j \in DOMAIN merged :
        merged[j].qline = n /\ "nq_similarity" \in DOMAIN merged[j]

\* the query lines the fuzzy search has decided on
FuzzySearched ==
    { n \in 1..qpos :
        /\ queries[n] # Bad
        /\ queries[n].answer # <<>>
        /\ ~(variant = "simplified" /\ ExactHit(n)) }

\* C10: the fuzzy path accepts a candidate exactly when its Jaccard score is
\* at least the threshold: a query is matched if and only if some indexed
\* store question scores at least the threshold against it, every result of
\* find_matches and every recorded nq_similarity is at least the threshold,
\* and a query whose best candidate scores exactly 1/2 is not matched at
\* threshold 0.9 and is matched, with nq_similarity 1/2, at threshold 0.3.
C10_AcceptsExactlyAtThreshold ==
    variant \in {"keyword", "simplified"} =>
        /\ \A i \in DOMAIN similar : Geq(similar[i].sim, threshold)
        /\ \A j \in DOMAIN merged :
              "nq_similarity" \in DOMAIN merged[j] =>
                  Geq(merged[j].nq_similarity, threshold)
        /\ \A n \in FuzzySearched :
              MatchedLine(n) <=>
                  \E i \in DOMAIN store :
                      FuzzyIndexed(store[i]) /\ Geq(Score(n, i), threshold)
        /\ \A n \in FuzzySearched :
              ( /\ \E i \in DOMAIN store :
                      FuzzyIndexed(store[i]) /\ Score(n, i) = <<1, 2>>
                /\ \A i \in DOMAIN store :
                      FuzzyIndexed(store[i]) => 2 * Score(n, i)[1] <= Score(n, i)[2] )
              => /\ threshold = <<9, 10>> => ~MatchedLine(n)
                 /\ threshold = <<3, 10>> =>
                       \E j \in DOMAIN merged :
                           /\ merged[j].qline = n
                           /\ "nq_similarity" \in DOMAIN merged[j]
                           /\ merged[j].nq_similarity = <<1, 2>>

\* find_matches returned a candidate that scores 1/2 at threshold 0.3 and
\* the query was merged with it
C10_HalfMatchesAtLowThreshold ==
    /\ variant = "keyword"
    /\ threshold = <<3, 10>>
    /\ similar # <<>>
    /\ similar[1].sim = <<1, 2>>
    /\ \E j \in DOMAIN merged :
          "nq_similarity" \in DOMAIN merged[j] /\ merged[j].nq_similarity = <<1, 2>>

\* the keyword matchers under any value of the threshold parameter, also the
\* values 0 and below
AnyThresholds == Thresholds \cup { <<0, 1>>, <<-1, 10>> }

DisjointQueryLines ==
    { Bad,
      QueryRecord(<<"z">>, <<"p">>),
      QueryRecord(<<" ", "X">>, <<"q">>) }

InitFuzzyAny ==
    /\ variant \in {"keyword", "simplified"}
    /\ pc = "index"
    /\ nresults = <<>>
    /\ store \in FuzzyStoreFiles
    /\ queries \in QueryFiles(DisjointQueryLines)
    /\ spos = 0 /\ qpos = 0
    /\ index = EmptyIndex
    /\ merged = <<>> /\ unmatched = <<>>
    /\ processed = 0 /\ matches = 0
    /\ batch_size = 0 /\ current_batch = <<>>
    /\ threshold \in AnyThresholds /\ similar = <<>>
    /\ chunk_size = 0 /\ chunk_start = 0 /\ next_pos = 0 /\ cprocessed = 0
    /\ total_processed = 0 /\ total_matches = 0
    /\ visits = <<>>
    /\ nq_open_files = <<>> /\ file_no = 0 /\ outputs = <<>>
    /\ fetch_offset = 0 /\ fetched = EmptyDict
    /\ question1 = <<>> /\ question2 = <<>> /\ k1 = {} /\ k2 = {} /\ sim = <<0, 1>>

SpecFuzzyAny == InitFuzzyAny /\ [][NextFuzzy]_vars

\* query line n has no keyword in common with any indexed store question
DisjointLine(n) ==
    \A i \in DOMAIN store :
        FuzzyIndexed(store[i]) =>
            get_keywords(Strip(queries[n].question))
                \cap get_keywords(Strip(store[i].question_text)) = {}

\* C11: a query whose keyword set is disjoint from that of every store entry
\* and whose key has no exact match is written to the unmatched output and
\* is not matched, whatever the threshold is, also for a threshold of 0 or
\* below.
C11_DisjointQueryUnmatched ==
    variant \in {"keyword", "simplified"} =>
        \A n \in 1..qpos :
            ( /\ queries[n] # Bad
              /\ queries[n].answer # <<>>
              /\ DisjointLine(n)
              /\ ~ExactHit(n) )
            => /\ ~MatchedLine(n)
               /\ \E i \in DOMAIN unmatched : unmatched[i].qline = n

(***************************************************************************)
(* test_similarity: the keywords of two questions and their similarity.    *)
(* The questions are the pairs of test_cases and all pairs of short        *)
(* questions made of the words below.                                      *)
(***************************************************************************)
MaxWords == 2

SimWords ==
    { <<"x">>, <<"y">>, <<"t", "h", "e">>, <<"X", "?">>, <<"?", "!">>, <<"\\">> }

SimQuestions == { Join(ws) : ws \in UNION { [1..n -> SimWords] : n \in 0..MaxWords } }

HarryPotterMovie ==
    <<"w","h","e","n"," ","d","i","d"," ","t","h","e"," ","h","a","r","r",
      "y"," ","p","o","t","t","e","r"," ","m","o","v","i","e"," ","c","o",
      "m","e"," ","o","u","t">>
HarryPotterTheMovie ==
    <<"w","h","e","n"," ","d","i","d"," ","h","a","r","r","y"," ","p","o",
      "t","t","e","r"," ","t","h","e"," ","m","o","v","i","e"," ","c","o",
      "m","e"," ","o","u","t">>

test_cases ==
    { <<HarryPotterMovie, HarryPotterTheMovie>>,
      <<<<"w","h","o"," ","p","l","a","y","e","d"," ","a","p","o","l","l",
          "o"," ","c","r","e","e","d"," ","i","n"," ","t","h","e"," ","o",
          "r","i","g","i","n","a","l"," ","r","o","c","k","y">>,
        <<"w","h","o"," ","p","l","a","y","e","d"," ","r","o","c","k","y",
          " ","i","n"," ","t","h","e"," ","o","r","i","g","i","n","a","l",
          " ","m","o","v","i","e">>>>,
      <<<<"w","h","e","n"," ","w","a","s"," ","t","h","e"," ","l","a","s",
          "t"," ","t","i","m","e"," ","l","i","v","e","r","p","o","o","l",
          " ","w","o","n"," ","f","i","r","s","t"," ","5"," ","g","a","m",
          "e","s">>,
        <<"w","h","e","n"," ","w","a","s"," ","t","h","e"," ","l","a","s",
          "t"," ","t","i","m","e"," ","a","r","s","e","n","a","l"," ","w",
          "o","n"," ","t","h","e"," ","l","e","a","g","u","e">>>>,
      <<<<"w","h","o"," ","s","i","n","g","s"," ","t","h","e"," ","s","o",
          "n","g"," ","i"," ","d","o","n","'","t"," ","c","a","r","e"," ",
          "i"," ","l","o","v","e"," ","i","t">>,
        <<"w","h","o"," ","s","i","n","g","s"," ","i"," ","g","o","t"," ",
          "y","o","u"," ","u","n","d","e","r"," ","m","y"," ","s","k","i",
          "n">>>> }

InitSim ==
    /\ variant = "similarity"
    /\ pc = "test"
    /\ nresults = <<>>
    /\ store = <<>> /\ queries = <<>>
    /\ spos = 0 /\ qpos = 0 /\ index = EmptyIndex
    /\ merged = <<>> /\ unmatched = <<>>
    /\ processed = 0 /\ matches = 0
    /\ batch_size = 0 /\ current_batch = <<>>
    /\ threshold = <<0, 1>> /\ similar = <<>>
    /\ chunk_size = 0 /\ chunk_start = 0 /\ next_pos = 0 /\ cprocessed = 0
    /\ total_processed = 0 /\ total_matches = 0
    /\ visits = <<>>
    /\ nq_open_files = <<>> /\ file_no = 0 /\ outputs = <<>>
    /\ fetch_offset = 0 /\ fetched = EmptyDict
    /\ \E c \in test_cases \cup (SimQuestions \X SimQuestions) :
          question1 = c[1] /\ question2 = c[2]
    /\ k1 = {} /\ k2 = {} /\ sim = <<0, 1>>

\* test_similarity(q1, q2)
TestSimilarity ==
    /\ variant = "similarity" /\ pc = "test"
    /\ k1' = get_keywords(question1)
    /\ k2' = get_keywords(question2)
    /\ sim' = calculate_similarity(k1', k2')
    /\ pc' = "done"
    /\ UNCHANGED fetchVars
    /\ UNCHANGED fileVars
    /\ UNCHANGED visitVars
    /\ UNCHANGED <<variant, normVars, dataVars, indexVars, driverVars, batchVars,
                   fuzzyVars, chunkVars, question1, question2>>

SpecSim == InitSim /\ [][TestSimilarity]_vars

\* C12: for non-empty keyword sets calculate_similarity is the number of
\* common keywords divided by the number of keywords in either set, so the
\* former is between 0 and the latter, the score is between 0 and 1, and the
\* score of (A, B) is the score of (B, A).
C12_JaccardInUnitIntervalSymmetric ==
    (variant = "similarity" /\ pc = "done" /\ k1 # {} /\ k2 # {}) =>
        /\ sim[1] * Cardinality(k1 \cup k2) = sim[2] * Cardinality(k1 \cap k2)
        /\ sim[2] > 0
        /\ 0 <= sim[1] /\ sim[1] <= sim[2]
        /\ 0 <= Cardinality(k1 \cap k2)
        /\ Cardinality(k1 \cap k2) <= Cardinality(k1 \cup k2)
        /\ sim = calculate_similarity(k2, k1)

\* two non-empty keyword sets of different sizes, one inside the other, were
\* scored
C12_ScoredNestedSets ==
    /\ variant = "similarity" /\ pc = "done"
    /\ k1 # {} /\ k2 # {}
    /\ k1 \subseteq k2 /\ k1 # k2
    /\ sim = <<1, 2>>

\* C13: calculate_similarity is 0.0 whenever one of the two keyword sets is
\* empty, also when both are, and it never divides by an empty union.
C13_EmptySetScoresZero ==
    (variant = "similarity" /\ pc = "done") =>
        /\ (k1 = {} \/ k2 = {}) => sim = <<0, 1>>
        /\ sim[2] > 0

\* two questions without a keyword were scored
C13_ScoredBothEmpty ==
    /\ variant = "similarity" /\ pc = "done"
    /\ question1 # <<>> /\ question2 # <<>>
    /\ k1 = {} /\ k2 = {}
    /\ sim = <<0, 1>>

\* the words of a question as test_similarity splits them
WordsOf(text) == LET words == Split(normalize_text(text))
                 IN  { words[i] : i \in DOMAIN words }

\* C14: two questions whose keyword sets are equal and non-empty score
\* exactly 1.0, so questions that differ only in word order, repeated words
\* or stop words do; "when did the harry potter movie come out" and "when
\* did harry potter the movie come out" score 1.0.
C14_EqualKeywordSetsScoreOne ==
    (variant = "similarity" /\ pc = "done") =>
        /\ (k1 = k2 /\ k1 # {}) => sim = <<1, 1>>
        /\ ( /\ WordsOf(question1) \ stop_words = WordsOf(question2) \ stop_words
             /\ WordsOf(question1) \ stop_words # {} ) => sim = <<1, 1>>
        /\ (question1 = HarryPotterMovie /\ question2 = HarryPotterTheMovie) =>
              sim = <<1, 1>>

\* the two Harry Potter questions were scored
C14_HarryPotterScored ==
    /\ variant = "similarity" /\ pc = "done"
    /\ question1 = HarryPotterMovie /\ question2 = HarryPotterTheMovie
    /\ question1 # question2
    /\ k1 = k2 /\ Cardinality(k1) = 7
    /\ sim = <<1, 1>>

\* C15: for each window the chunk coordinator runs the driver over the whole
\* query file: once a window was driven, the driver has read every line of
\* the query file, also when the file has more records than chunk_size.
C15_WholeQueryFilePerWindow ==
    (variant = "chunked" /\ chunk_start > 0) => qpos = Len(queries)

\* C16: at every point of a chunked run the index holds at most chunk_size
\* entries, every entry belongs to the window being built (none is left from
\* an earlier window), and the index is empty when process_chunk starts on a
\* window.
C16_IndexBoundedByChunk ==
    variant = "chunked" =>
        /\ Cardinality(DOMAIN index) <= chunk_size
        /\ \A k \in DOMAIN index : index[k].byte_offset >= chunk_start
        /\ (pc = "chunk" /\ cprocessed = 0) => index = EmptyIndex

\* process_chunk has filled the index of a later window up to chunk_size
\* entries, in a store with more distinct keys than that
C16_LaterWindowFull ==
    /\ variant = "chunked"
    /\ chunk_start > 0
    /\ Cardinality(DOMAIN index) = chunk_size
    /\ Cardinality({ KeyOf(store[i]) : i \in { j \in DOMAIN store : Indexable(store[j]) } })
          > chunk_size

(***************************************************************************)
(* Malformed lines.                                                        *)
(***************************************************************************)
\* the number of lines among the first n of a file that do not parse
BadLines(file, n) == Cardinality({ i \in 1..n : file[i] = Bad })

\* the lines the except clauses of the indexing loop and of the driver loop
\* have passed over so far
Skipped == BadLines(store, spos) + BadLines(queries, qpos)

\* the numbers the indexer and the driver keep and return: the counters
\* processed and matches_found, and the sizes of the index and of the
\* pending batch
Counters ==
    { processed, matches, Cardinality(DOMAIN index), Len(current_batch) }

\* C17: in the offset-based and the batched run, a line of the store or of
\* the query file that does not parse is passed over without ending the
\* loop (the index is that of all the store's lines that parse, and every
\* query line that parses is processed), and the lines passed over are
\* counted: one of the numbers the run keeps is the number of skipped lines.
C17_MalformedLinesSkippedAndCounted ==
    (variant \in {"memory", "fixed"} /\ pc = "done") =>
        /\ spos = Len(store) /\ qpos = Len(queries)
        /\ DOMAIN index =
              { KeyOf(store[i]) : i \in { j \in DOMAIN store : Indexable(store[j]) } }
        /\ processed = Len(queries) - BadLines(queries, Len(queries))
        /\ Skipped \in Counters

(***************************************************************************)
(* Failure semantics.                                                      *)
(***************************************************************************)
\* the indexer stopped before the end of the store
StoreUnread ==
    /\ variant \in {"memory", "fixed"}
    /\ pc # "index"
    /\ spos < Len(store)

\* C18: when the store of the offset-based or of the batched run cannot be
\* read to its end, the run ends as failed: the driver is not started on
\* the index read so far, no query line is read and nothing is written to
\* the merged and unmatched outputs.
C18_UnreadableStoreIsFatal ==
    StoreUnread =>
        /\ pc = "failed"
        /\ qpos = 0
        /\ merged = <<>> /\ unmatched = <<>>

\* a record of the store starts at the offset
RecordAt(st, byte_offset) ==
    \E i \in 1..Len(st) : Offset(st, i) = byte_offset /\ st[i] # Bad

\* C19: get_full_data returns and never raises; it returns the empty dict
\* when no record starts at the offset (the offset is negative, lies inside
\* a line or past the end of the store, or the line there does not parse),
\* and otherwise the record at the offset or the empty dict.  In the
\* offset-based run the driver goes on after every call: it reads the query
\* file to its end and counts every query line that parses.
C19_GetFullDataNeverRaises ==
    /\ (variant = "fetch" /\ pc = "returned") =>
          /\ fetched # Raised
          /\ ~RecordAt(store, fetch_offset) => fetched = EmptyDict
          /\ RecordAt(store, fetch_offset) =>
                \/ fetched = EmptyDict
                \/ \E i \in 1..Len(store) :
                      Offset(store, i) = fetch_offset /\ fetched = store[i]
    /\ (variant = "memory" /\ pc = "done") =>
          /\ qpos = Len(queries)
          /\ processed = Len(queries) - BadLines(queries, Len(queries))

\* get_full_data has returned the empty dict for an offset inside a line
C19_MidLineNotFound ==
    /\ variant = "fetch" /\ pc = "returned"
    /\ fetched = EmptyDict
    /\ \E i \in 1..Len(store) :
          Offset(store, i) < fetch_offset /\ fetch_offset < Offset(store, i + 1)

\* the configuration value of the run is not a valid one
InvalidConfig ==
    \/ variant = "chunked" /\ chunk_size <= 0
    \/ variant = "fixed" /\ batch_size <= 0
    \/ variant = "simplified"
          /\ ~(Greater(threshold, <<0, 1>>) /\ Geq(<<1, 1>>, threshold))

\* C20: with a chunk size or a batch size that is not positive, or a
\* similarity threshold outside (0, 1], no step of the run reads a query
\* line or changes an output file, and no step of the chunked or of the
\* batched run reads a store line (the store of merge_datasets_simplified
\* is read by process_simplified_nq, which does not take the threshold).
C20_InvalidConfigRejected ==
    [][ InvalidConfig =>
            /\ UNCHANGED <<qpos, merged, unmatched>>
            /\ variant # "simplified" => UNCHANGED spos ]_vars

(***************************************************************************)
(* Frame of the output records.                                            *)
(***************************************************************************)
\* C21: in the offset-based run and in the two keyword runs, every record
\* of the merged and of the unmatched output holds the question string and
\* the answer value of the query line it was written for, as they stand in
\* the query record (question not trimmed, answer the whole array).
C21_OutputsCarryQueryVerbatim ==
    variant \in {"memory", "keyword", "simplified"} =>
        /\ \A i \in DOMAIN merged :
              /\ merged[i].question = queries[merged[i].qline].question
              /\ merged[i].answer = queries[merged[i].qline].answer
        /\ \A i \in DOMAIN unmatched :
              /\ unmatched[i].question = queries[unmatched[i].qline].question
              /\ unmatched[i].answer = queries[unmatched[i].qline].answer

(***************************************************************************)
(* A run over the train and the dev query file: after the store is         *)
(* indexed, main calls the driver once per query file.  A query file that  *)
(* cannot be opened is Missing, one that can is the record of its lines.   *)
(***************************************************************************)
Missing == [missing |-> TRUE]

\* load_simplified_nq_minimal over the first n lines of a store
RECURSIVE load_simplified_nq_minimal(_, _)
load_simplified_nq_minimal(st, n) ==
    IF n = 0 THEN EmptyIndex
    ELSE LET dict == load_simplified_nq_minimal(st, n - 1)
         IN  IF st[n] = Bad THEN dict ELSE LoadRecord(dict, st[n])

FileLines == { Bad, QueryRecord(<<"x">>, <<"p">>), QueryRecord(<<"z", "?">>, <<"q">>) }

\* main after the store is indexed (the offset-based main has returned
\* already when the index is empty)
InitFiles ==
    /\ variant \in {"memory", "fixed"}
    /\ pc = "open"
    /\ nresults = <<>>
    /\ store \in StoreFiles(StoreTexts)
    /\ queries = <<>>
    /\ spos = Len(store) /\ qpos = 0
    /\ index = IF variant = "memory" THEN create_minimal_index(store, Len(store))
               ELSE load_simplified_nq_minimal(store, Len(store))
    /\ variant = "memory" => index # EmptyIndex
    /\ merged = <<>> /\ unmatched = <<>>
    /\ processed = 0 /\ matches = 0
    /\ batch_size \in (IF variant = "fixed" THEN 1..MaxBatch ELSE {0})
    /\ current_batch = <<>>
    /\ threshold = <<0, 1>> /\ similar = <<>>
    /\ chunk_size = 0 /\ chunk_start = 0 /\ next_pos = 0 /\ cprocessed = 0
    /\ total_processed = 0 /\ total_matches = 0
    /\ visits = <<>>
    /\ nq_open_files \in
          [1..2 -> {Missing} \cup { [lines |-> f] : f \in QueryFiles(FileLines) }]
    /\ file_no = 0 /\ outputs = <<>>
    /\ fetch_offset = 0 /\ fetched = EmptyDict
    /\ question1 = <<>> /\ question2 = <<>> /\ k1 = {} /\ k2 = {} /\ sim = <<0, 1>>

\* main calls the driver on the next query file.  open(input_file) is the
\* first open of the with statement: when it raises, no output file is
\* created; process_nq_open catches the exception and returns (0, 0), and
\* main goes on; process_nq_open_batch has no try around the with statement,
\* and the exception leaves main
MainOpenFile ==
    /\ variant \in {"memory", "fixed"} /\ pc = "open"
    /\ file_no < Len(nq_open_files)
    /\ LET input_file == nq_open_files[file_no + 1]
       IN  IF input_file = Missing
           THEN /\ IF variant = "memory"
                   THEN file_no' = file_no + 1 /\ pc' = "open"
                   ELSE file_no' = file_no /\ pc' = "raised"
                /\ UNCHANGED <<queries, qpos, merged, unmatched, processed, matches>>
           ELSE /\ queries' = input_file.lines
                /\ qpos' = 0
                /\ merged' = <<>> /\ unmatched' = <<>>
                /\ processed' = 0 /\ matches' = 0
                /\ pc' = "drive"
                /\ UNCHANGED file_no
    /\ UNCHANGED simVars
    /\ UNCHANGED fetchVars
    /\ UNCHANGED visitVars
    /\ UNCHANGED <<variant, normVars, store, indexVars, batchVars, fuzzyVars, chunkVars,
                   nq_open_files, outputs>>

\* the driver has returned: the two files it wrote are closed
MainFileDone ==
    /\ variant \in {"memory", "fixed"} /\ pc = "done"
    /\ file_no < Len(nq_open_files)
    /\ outputs' = [k \in (DOMAIN outputs) \cup {file_no + 1} |->
                      IF k = file_no + 1
                      THEN [merged |-> merged, unmatched |-> unmatched]
                      ELSE outputs[k]]
    /\ file_no' = file_no + 1
    /\ pc' = "open"
    /\ UNCHANGED simVars
    /\ UNCHANGED fetchVars
    /\ UNCHANGED visitVars
    /\ UNCHANGED <<variant, normVars, dataVars, indexVars, driverVars, batchVars,
                   fuzzyVars, chunkVars, nq_open_files>>

NextFiles ==
    \/ MainOpenFile
    \/ MainFileDone
    \/ ProcessNqOpenStep
    \/ ProcessNqOpenEnd
    \/ ProcessNqOpenBatchStep
    \/ ProcessNqOpenBatchEnd

SpecFiles == InitFiles /\ [][NextFiles]_vars

\* C22: when main is through with the train and the dev query file, or has
\* been left by an exception, the output files of every query file that
\* can be opened have been written, whether or not the other query file
\* could be opened.
C22_OtherFilesStillProcessed ==
    (/\ variant \in {"memory", "fixed"}
     /\ nq_open_files # <<>>
     /\ \/ pc = "raised"
        \/ pc = "open" /\ file_no = Len(nq_open_files))
    => \A k \in DOMAIN nq_open_files :
          nq_open_files[k] # Missing => k \in DOMAIN outputs

(***************************************************************************)
(* Keyword sets.                                                           *)
(***************************************************************************)
\* C23: the set get_keywords returns holds no stop word, and it is empty
\* when the text is empty, consists of whitespace and of characters of
\* string.punctuation only, or consists of stop words only.
C23_KeywordsWithoutStopWords ==
    LET punctuation == PunctuationClass \cup {"\\"}
        words == Split(LowerStr(question1))
    IN  (variant = "similarity" /\ pc = "done") =>
            /\ k1 \cap stop_words = {}
            /\ (\A i \in DOMAIN question1 :
                    question1[i] \in Whitespace \cup punctuation) => k1 = {}
            /\ (\A i \in DOMAIN words : words[i] \in stop_words) => k1 = {}

(***************************************************************************)
(* The chunk coordinator.                                                  *)
(***************************************************************************)
\* C24: main of merge_datasets_chunked runs the driver on the index of every
\* window process_chunk returns, the last one (end of the store, with fewer
\* than chunk_size records) included: when main's loop is left, no index
\* that holds entries has gone unmatched (an index the driver was run on is
\* cleared afterwards).
C24_EveryWindowIsMatched ==
    (variant = "chunked" /\ pc = "done") => index = EmptyIndex

(***************************************************************************)
(* Candidates of equal score: a store whose questions share no keyword     *)
(* with one another but each share one with the query "x y".               *)
(***************************************************************************)
TieStoreTexts == { <<"x">>, <<"y">>, <<"x", " ", "y">> }

InitFuzzyTies ==
    /\ variant \in {"keyword", "simplified"}
    /\ pc = "index"
    /\ nresults = <<>>
    /\ store \in UNION { { MkFuzzyStore(ks) : ks \in [1..n -> StoreKinds(TieStoreTexts)] } :
                           n \in 0..MaxStore }
    /\ queries \in QueryFiles({ QueryRecord(<<"x", " ", "y">>, <<"p">>),
                                QueryRecord(<<"y">>, <<"q">>) })
    /\ spos = 0 /\ qpos = 0
    /\ index = EmptyIndex
    /\ merged = <<>> /\ unmatched = <<>>
    /\ processed = 0 /\ matches = 0
    /\ batch_size = 0 /\ current_batch = <<>>
    /\ threshold \in Thresholds /\ similar = <<>>
    /\ chunk_size = 0 /\ chunk_start = 0 /\ next_pos = 0 /\ cprocessed = 0
    /\ total_processed = 0 /\ total_matches = 0
    /\ visits = <<>>
    /\ nq_open_files = <<>> /\ file_no = 0 /\ outputs = <<>>
    /\ fetch_offset = 0 /\ fetched = EmptyDict
    /\ question1 = <<>> /\ question2 = <<>> /\ k1 = {} /\ k2 = {} /\ sim = <<0, 1>>

SpecFuzzyTies == InitFuzzyTies /\ [][NextFuzzy]_vars

\* the first store line among those whose score against query line n is
\* the highest of the scores that reach the threshold
FirstBest(n) ==
    LET reach == { i \in DOMAIN store :
                     FuzzyIndexed(store[i]) /\ Geq(Score(n, i), threshold) }
        top == { i \in reach : \A k \in reach : Geq(Score(n, i), Score(n, k)) }
    IN  CHOOSE i \in top : \A k \in top : i <= k

\* C25: a query the keyword matchers merge is merged with the question of
\* the first store record that has the highest score among those reaching
\* the threshold: the choice is a function of the store, the query and the
\* threshold alone.
C25_FirstSeenBestCandidate ==
    variant \in {"keyword", "simplified"} =>
        \A j \in DOMAIN merged :
            "nq_similarity" \in DOMAIN merged[j] =>
                /\ merged[j].nq_similarity = Score(merged[j].qline, FirstBest(merged[j].qline))
                /\ merged[j].nq_question =
                      Strip(store[FirstBest(merged[j].qline)].question_text)

\* main of merge_datasets_chunked on stores of malformed lines, records with
\* the question x and records with an empty question, and query files of at
\* most one line; the process runs on as long as it has a step to take
InitChunkLoop ==
    /\ InitChunked
    /\ \A i \in DOMAIN store :
           store[i] # Bad => store[i].question_text \in { <<"x">>, <<" ">> }
    /\ Len(queries) <= 1

SpecChunkLoop == InitChunkLoop /\ [][NextChunked]_vars /\ WF_vars(NextChunked)

\* C26: with a chunk size of at least 1, main's loop over the windows of a
\* finite store comes to its end, and every window it goes on from starts
\* behind the window before it: the loop either meets the end of the store
\* or moves past at least one record.
C26_ChunkLoopTerminates ==
    /\ <>(pc = "done")
    /\ [][ (pc = "drive" /\ pc' = "chunk") =>
               /\ chunk_start' > chunk_start
               /\ LinesBefore(store, chunk_start') > LinesBefore(store, chunk_start) ]_vars

\* main's loop has ended in a window that is not the first one
C26_EndedAfterSeveralWindows ==
    variant = "chunked" /\ pc = "done" /\ chunk_start > 0 /\ chunk_size >= 1

(***************************************************************************)
(* Locators.                                                               *)
(***************************************************************************)
\* C27: offset round trip: for every entry of an index built by
\* create_minimal_index or process_chunk over a store, get_full_data on the
\* unchanged, readable store at the entry's byte_offset returns a record
\* whose question_text normalises to the entry's key, and it is the record
\* the entry was built from (same example_id and document_url).
C27_OffsetRoundTrip ==
    variant \in {"memory", "chunked"} =>
        \A k \in DOMAIN index :
            LET data == get_full_data(store, index[k].byte_offset, TRUE)
            IN  /\ data # EmptyDict
                /\ normalize_question(data.question_text) = k
                /\ data.example_id = index[k].example_id
                /\ data.document_url = index[k].document_url

\* an index entry locates a record that is not on the first line of the
\* store, behind a line that does not parse, and get_full_data returns it
C27_FetchedBehindBadLine ==
    /\ variant \in {"memory", "chunked"}
    /\ \E k \in DOMAIN index : \E i \in 2..Len(store) :
          /\ index[k].byte_offset = Offset(store, i)
          /\ store[i - 1] = Bad
          /\ get_full_data(store, index[k].byte_offset, TRUE) = store[i]

\* the records of the current window that an entry under key k was built from
BuiltFrom(k) == { i \in Window : Indexable(store[i]) /\ KeyOf(store[i]) = k }

\* C28: in every index built by create_minimal_index or process_chunk an
\* entry has the three fields document_url, example_id and byte_offset, all
\* three of one store record with the entry's key; and once a later record
\* with the same key has overwritten the entry, none of its fields is the
\* earlier record's.
C28_EntryFromOneRecord ==
    variant \in {"memory", "chunked"} =>
        \A k \in DOMAIN index :
            /\ DOMAIN index[k] = {"document_url", "example_id", "byte_offset"}
            /\ \E i \in BuiltFrom(k) :
                  /\ index[k].document_url = store[i].document_url
                  /\ index[k].example_id = store[i].example_id
                  /\ index[k].byte_offset = Offset(store, i)
                  /\ \A j \in BuiltFrom(k) : j <= i
                  /\ \A j \in BuiltFrom(k) : j < i =>
                        /\ index[k].document_url # store[j].document_url
                        /\ index[k].example_id # store[j].example_id
                        /\ index[k].byte_offset # Offset(store, j)

\* process_chunk has overwritten an entry of the current window: two records
\* of the window have the same key and the entry is the later record's
C28_OverwrittenInWindow ==
    /\ variant = "chunked"
    /\ \E k \in DOMAIN index : \E i \in BuiltFrom(k) : \E j \in BuiltFrom(k) :
          /\ j < i
          /\ store[j].document_url # store[i].document_url
          /\ store[j].example_id # store[i].example_id
          /\ index[k].example_id = store[i].example_id

(***************************************************************************)
(* The windows of process_chunk, called at 0 and then at every position it *)
(* returns until it returns -1.  main makes these calls as long as the      *)
(* index of a window is not empty; RestartAtNextPos makes the call main     *)
(* does not make, after a window of records without a question.             *)
(***************************************************************************)
InitWindows == InitChunked /\ queries = <<>>

RestartAtNextPos ==
    /\ variant = "chunked" /\ pc = "done"
    /\ next_pos # -1
    /\ index' = EmptyIndex
    /\ chunk_start' = next_pos
    /\ cprocessed' = 0
    /\ spos' = LinesBefore(store, next_pos)
    /\ pc' = "chunk"
    /\ UNCHANGED simVars
    /\ UNCHANGED fetchVars
    /\ UNCHANGED fileVars
    /\ UNCHANGED visitVars
    /\ UNCHANGED <<variant, normVars, dataVars, driverVars, batchVars, fuzzyVars,
                   chunk_size, next_pos, total_processed, total_matches>>

NextWindows ==
    \/ ProcessChunkStep
    \/ ProcessChunkEof
    \/ ProcessChunkFull
    \/ ProcessNqOpenChunk
    \/ RestartAtNextPos

SpecWindows == InitWindows /\ [][NextWindows]_vars

\* the number of times process_chunk has parsed and counted store line i
Visits(i) == Cardinality({ n \in DOMAIN visits : visits[n] = i })

\* the records among the store lines in S
Records(S) == { i \in S : store[i] # Bad }

\* C29: the windows of process_chunk partition the store.  A window starts
\* on a line boundary; every record read so far was parsed in exactly one
\* window and no record of the store in more than one; the window in hand
\* has counted exactly its records, at most chunk_size of them; next_pos is
\* the start of the window while it has no record and the end of its last
\* record afterwards, so the lines between next_pos and the read position
\* are malformed ones, which neither count nor move the boundary; and when
\* the sentinel -1 is returned every record of the store was parsed once.
C29_WindowsPartitionStore ==
    variant = "chunked" =>
        /\ \E n \in 0..Len(store) : Offset(store, n + 1) = chunk_start
        /\ \A i \in Records(DOMAIN store) : Visits(i) = (IF i <= spos THEN 1 ELSE 0)
        /\ cprocessed = Cardinality(Records(Window))
        /\ cprocessed <= chunk_size
        /\ next_pos # -1 =>
              /\ next_pos = (IF Records(Window) = {} THEN chunk_start
                             ELSE Offset(store, Max(Records(Window)) + 1))
              /\ Records((LinesBefore(store, next_pos) + 1)..spos) = {}
        /\ next_pos = -1 =>
              \A i \in Records(DOMAIN store) : Visits(i) = 1

\* a later window of process_chunk has passed over a malformed line and
\* counted its chunk_size-th record behind it
C29_WindowWithBadLineFull ==
    /\ variant = "chunked" /\ pc = "chunk"
    /\ chunk_start > 0
    /\ cprocessed = chunk_size
    /\ \E i \in Window : store[i] = Bad /\ i < Max(Records(Window))

(***************************************************************************)
(* Batches.                                                                *)
(***************************************************************************)
\* process_nq_open_batch as a function of the query file and the batch size:
\* the for loop from line n + 1 on, with the output so far and the batch in
\* hand, and the flush after the loop; io[k] tells whether the store can be
\* read for the question on query line k
RECURSIVE process_nq_open_batch(_, _, _, _, _, _, _, _)
process_nq_open_batch(out, batch, qs, n, dict, st, size, io) ==
    LET Flush(b) == process_batch(out, b, dict, st, [i \in 1..Len(b) |-> io[b[i].qline]])
    IN  IF n = Len(qs)
        THEN IF batch # <<>> THEN Flush(batch) ELSE out
        ELSE LET data == qs[n + 1]
                 b == Append(batch, [data |-> data, qline |-> n + 1])
             IN  IF data = Bad
                 THEN process_nq_open_batch(out, batch, qs, n + 1, dict, st, size, io)
                 ELSE IF Len(b) >= size
                 THEN process_nq_open_batch(Flush(b), <<>>, qs, n + 1, dict, st, size, io)
                 ELSE process_nq_open_batch(out, b, qs, n + 1, dict, st, size, io)

\* whether the store could be read for query line n, as the output files
\* of the run show it
StoreReadFor ==
    [n \in DOMAIN queries |->
        ~ \E i \in DOMAIN unmatched :
              /\ unmatched[i].qline = n
              /\ unmatched[i].error = "Failed to get full data"]

\* the query lines whose batch process_batch has been called on
Flushed == IF current_batch = <<>> THEN qpos ELSE current_batch[1].qline - 1

\* C30: the output of process_nq_open_batch does not depend on the batch
\* size: at every point of the loop the merged file, the unmatched file and
\* the two counts are those that batch_size = 1 gives on the query lines of
\* the batches processed so far (with the same outcomes of reading the
\* store), the batch in hand is shorter than batch_size, both files are in
\* query input order, and at the return the whole query file is covered:
\* the trailing partial batch was flushed.
C30_BatchSizeInvisible ==
    (variant = "fixed" /\ pc \in {"drive", "done"}) =>
        /\ DriverOut = process_nq_open_batch(
                           [merged |-> <<>>, unmatched |-> <<>>, processed |-> 0, matches |-> 0],
                           <<>>, SubSeq(queries, 1, Flushed), 0, index, store, 1, StoreReadFor)
        /\ Len(current_batch) < batch_size
        /\ \A i \in DOMAIN merged : \A j \in DOMAIN merged :
              i < j => merged[i].qline < merged[j].qline
        /\ \A i \in DOMAIN unmatched : \A j \in DOMAIN unmatched :
              i < j => unmatched[i].qline < unmatched[j].qline
        /\ pc = "done" =>
              /\ current_batch = <<>> /\ Flushed = Len(queries)
              /\ processed = Len(queries) - BadLines(queries, Len(queries))

\* process_nq_open_batch has returned after flushing a trailing batch that
\* was shorter than batch_size and gave a merged record
C30_TrailingBatchFlushed ==
    /\ variant = "fixed" /\ pc = "done"
    /\ batch_size > 1
    /\ processed % batch_size # 0
    /\ merged # <<>>
====
